---- MODULE Spec2Model ----
(***************************************************************************)
(* Voice-phishing counselling assistant: the dialogue state machine of     *)
(* core/graph.py (StructuredVoicePhishingGraph), its compiled LangGraph    *)
(* routing, the hybrid LLM path (core/hybrid_graph_system.py,              *)
(* services/gemini_assistant.py), the backup graph's turn handler          *)
(* (core/graph_backup.py), the improved slot collector                     *)
(* (core/improved_graph_nodes.py) and the turn processing of               *)
(* services/conversation_manager.py.                                       *)
(*                                                                         *)
(* Text is modelled as a sequence of one-character strings, so that the    *)
(* substring tests, regular expressions and length tests of the source are *)
(* computed, not assumed.  A Hangul syllable is written as one string, the *)
(* letters of its initial, medial and final jamo ("x" for the silent       *)
(* initial): "xeog" for the syllable of 1억, <<"xa", "ni", "xyo">> for       *)
(* 아니요.  Distinct syllables get distinct strings.                        *)
(***************************************************************************)
EXTENDS Integers, Sequences, FiniteSets, TLC

(***************************************************************************)
(* Text helpers (Python str operations used by the source)                 *)
(***************************************************************************)
Digits == {"0", "1", "2", "3", "4", "5", "6", "7", "8", "9"}

Whitespace == {" "}

\* `w in t` for Python strings
Contains(t, w) ==
    \E i \in 1..(Len(t) - Len(w) + 1) : SubSeq(t, i, i + Len(w) - 1) = w

ContainsAny(t, ws) == \E w \in ws : Contains(t, w)

RECURSIVE LStrip(_)
LStrip(t) ==
    IF t # <<>> /\ Head(t) \in Whitespace THEN LStrip(Tail(t)) ELSE t

RECURSIVE RStrip(_)
RStrip(t) ==
    IF t # <<>> /\ t[Len(t)] \in Whitespace
    THEN RStrip(SubSeq(t, 1, Len(t) - 1))
    ELSE t

\* str.strip()
Strip(t) == RStrip(LStrip(t))

UpperCase ==
    << "A", "B", "C", "D", "E", "F", "G", "H", "I", "J", "K", "L", "M",
       "N", "O", "P", "Q", "R", "S", "T", "U", "V", "W", "X", "Y", "Z" >>

LowerCase ==
    << "a", "b", "c", "d", "e", "f", "g", "h", "i", "j", "k", "l", "m",
       "n", "o", "p", "q", "r", "s", "t", "u", "v", "w", "x", "y", "z" >>

LowerChar(c) ==
    IF \E i \in 1..Len(UpperCase) : UpperCase[i] = c
    THEN LowerCase[CHOOSE i \in 1..Len(UpperCase) : UpperCase[i] = c]
    ELSE c

\* str.lower()
Lower(t) == [i \in 1..Len(t) |-> LowerChar(t[i])]

\* `not user_input.strip()`
IsBlank(t) == Strip(t) = <<>>

(***************************************************************************)
(* Regular expressions of the form  piece .* piece .* piece , searched     *)
(* with re.search.  A piece is a sequence of character classes: a literal  *)
(* character, "#d" for a digit (the last digit of a \d+ run) or "#." for   *)
(* any character.                                                          *)
(***************************************************************************)
CharIn(c, cls) ==
    CASE cls = "#d" -> c \in Digits
      [] cls = "#." -> TRUE
      [] OTHER -> c = cls

MatchAt(t, p, i) ==
    /\ i + Len(p) - 1 <= Len(t)
    /\ \A k \in 1..Len(p) : CharIn(t[i + k - 1], p[k])

RECURSIVE Search(_, _, _)
Search(t, ps, from) ==
    IF ps = <<>>
    THEN TRUE
    ELSE \E i \in from..Len(t) :
            MatchAt(t, ps[1], i) /\ Search(t, Tail(ps), i + Len(ps[1]))

ReSearch(ps, t) == Search(t, ps, 1)

Max(a, b) == IF a >= b THEN a ELSE b

Min(a, b) == IF a <= b THEN a ELSE b

(***************************************************************************)
(* Utterance classifier: StructuredVoicePhishingGraph._assess_urgency_smart*)
(***************************************************************************)
high_urgency_patterns ==
    << << <<"#d", "xeog">>, <<"song", "geum">> >>,
       << <<"#d", "man", "xwon">>, <<"bo", "naess">> >>,
       << <<"song", "geum">>, <<"#d", "bun">>, <<"jeon">> >>,
       << <<"sa", "gi">>, <<"dang", "haess">> >>,
       << <<"don">>, <<"teol", "ryeoss">> >>,
       << <<"gye", "jwa">>, <<"xi", "che">>, <<"haess">> >>,
       << <<"#d">>, <<"bo", "naess">>, <<"bun">>, <<"jeon">> >> >>

medium_urgency_patterns ==
    << << <<"bo", "xi", "seu">>, <<"pi", "sing">>, <<"dang", "haess">> >>,
       << <<"sog", "xass">>, <<"gat", "xa">> >>,
       << <<"xui", "sim">>, <<"seu", "reo", "xun">>, <<"jeon", "hwa">> >>,
       << <<"ring", "keu">>, <<"keul", "rig">>, <<"haess">> >>,
       << <<"xaeb">>, <<"seol", "chi">>, <<"haess">> >>,
       << <<"dae", "chul">>, <<"byeon", "gyeong", "#.">> >> >>

simple_keywords ==
    << <<<<"geub", "hae">>, 4>>, <<<<"ppal", "ri">>, 4>>, <<<<"do", "xwa">>, 3>>,
       <<<<"song", "geum">>, 2>>, <<<<"xi", "che">>, 2>>, <<<<"bo", "naess">>, 2>>,
       <<<<"sa", "gi">>, 2>>, <<<<"xui", "sim">>, 1>>, <<<<"xi", "sang">>, 1>> >>

negative_contexts ==
    << <<"xi", "reum">>, <<"mwo", "xya">>, <<"mo", "reu">>, <<"xa", "ni">>,
       <<"geu", "nyang">>, <<"gung", "geum">>, <<"jil", "mun">>, <<"mun", "xui">>,
       <<"xal", "go", "sip">>, <<"seol", "myeong">>, <<"tteus">>, <<"xui", "mi">> >>

time_indicators ==
    << << << <<"bang", "geum">> >>, 3 >>,
       << << <<"#d", "bun">>, <<"jeon">> >>, 3 >>,
       << << <<"#d", "si", "gan">>, <<"jeon">> >>, 2 >>,
       << << <<"xo", "neul">> >>, 2 >> >>

\* `for pattern in patterns: if re.search(...): score += bonus; break`
AnyPattern(patterns, t) ==
    \E k \in 1..Len(patterns) : ReSearch(patterns[k], t)

RECURSIVE KeywordSum(_, _)
KeywordSum(kws, t) ==
    IF kws = <<>>
    THEN 0
    ELSE (IF Contains(t, kws[1][1]) THEN kws[1][2] ELSE 0)
         + KeywordSum(Tail(kws), t)

RECURSIVE ApplyNegatives(_, _, _)
ApplyNegatives(negs, t, score) ==
    IF negs = <<>>
    THEN score
    ELSE ApplyNegatives(Tail(negs), t,
            IF Contains(t, negs[1]) THEN Max(0, score - 3) ELSE score)

RECURSIVE FirstTimeBonus(_, _)
FirstTimeBonus(inds, t) ==
    IF inds = <<>>
    THEN 0
    ELSE IF ReSearch(inds[1][1], t)
         THEN inds[1][2]
         ELSE FirstTimeBonus(Tail(inds), t)

PatternScore(user_input) ==
    (IF AnyPattern(high_urgency_patterns, user_input) THEN 8 ELSE 0)
      + (IF AnyPattern(medium_urgency_patterns, user_input) THEN 5 ELSE 0)

ContextScore(user_input, user_lower, score) ==
    ApplyNegatives(negative_contexts, user_lower,
                   score + KeywordSum(simple_keywords, user_lower))
      + FirstTimeBonus(time_indicators, user_input)

ShortInputPenalty(user_input, score) ==
    IF Len(user_input) <= 5 THEN Max(0, score - 2) ELSE score

QuestionPenalty(user_input, score) ==
    IF Contains(user_input, <<"?">>) \/ Contains(user_input, <<"gung", "geum">>)
    THEN Max(0, score - 2)
    ELSE score

\* the final adjustment without its upper end
ClampUrgencyFromBelow(score) == Max(score, 1)

ClampUrgency(score) == Min(Max(score, 1), 10)

_assess_urgency_smart(user_input) ==
    ClampUrgency(
        QuestionPenalty(user_input,
            ShortInputPenalty(user_input,
                ContextScore(user_input, Strip(Lower(user_input)),
                             PatternScore(user_input)))))

(***************************************************************************)
(* Answer parser: StructuredVoicePhishingGraph._parse_answer               *)
(***************************************************************************)
DigitVal(c) ==
    CASE c = "0" -> 0 [] c = "1" -> 1 [] c = "2" -> 2 [] c = "3" -> 3
      [] c = "4" -> 4 [] c = "5" -> 5 [] c = "6" -> 6 [] c = "7" -> 7
      [] c = "8" -> 8 [] c = "9" -> 9

DigitChar(n) ==
    CASE n = 0 -> "0" [] n = 1 -> "1" [] n = 2 -> "2" [] n = 3 -> "3"
      [] n = 4 -> "4" [] n = 5 -> "5" [] n = 6 -> "6" [] n = 7 -> "7"
      [] n = 8 -> "8" [] n = 9 -> "9"

\* int("123")
RECURSIVE ToInt(_)
ToInt(ds) ==
    IF ds = <<>>
    THEN 0
    ELSE ToInt(SubSeq(ds, 1, Len(ds) - 1)) * 10 + DigitVal(ds[Len(ds)])

RECURSIVE IntDigits(_)
IntDigits(n) ==
    IF n < 10
    THEN <<DigitChar(n)>>
    ELSE Append(IntDigits(n \div 10), DigitChar(n % 10))

RECURSIVE GroupThousands(_)
GroupThousands(ds) ==
    IF Len(ds) <= 3
    THEN ds
    ELSE GroupThousands(SubSeq(ds, 1, Len(ds) - 3)) \o <<",">>
         \o SubSeq(ds, Len(ds) - 2, Len(ds))

\* f"{amount:,}"
FormatThousands(n) == GroupThousands(IntDigits(n))

NumChars == Digits \cup {","}

RECURSIVE RunEnd(_, _, _)
RunEnd(t, i, cls) ==
    IF i < Len(t) /\ t[i + 1] \in cls THEN RunEnd(t, i + 1, cls) ELSE i

\* re.findall(r'[\d,]+', t)[0], or <<>> when there is no match
FirstNumberRun(t) ==
    IF \E i \in 1..Len(t) : t[i] \in NumChars
    THEN LET i == CHOOSE k \in 1..Len(t) :
                     t[k] \in NumChars /\ \A j \in 1..(k - 1) : t[j] \notin NumChars
         IN  SubSeq(t, i, RunEnd(t, i, NumChars))
    ELSE <<>>

RemoveCommas(t) == SelectSeq(t, LAMBDA c : c # ",")

yes_words ==
    { <<"ne">>, <<"xye">>, <<"maj", "xa">>, <<"mas">>, <<"mas", "xa">>, <<"maj">>,
      <<"xung">>, <<"xeong">>, <<"y", "e", "s">>, <<"xeung">> }

no_words ==
    { <<"xa", "ni">>, <<"n", "o">>, <<"xa", "nim">>, <<"ttaeng">>, <<"xa", "nin">> }

YES == <<"ne">>

NO == <<"xa", "ni", "xyo">>

UNCONFIRMED == <<"mi", "hwag", "xin">>

time_mappings ==
    << << <<"xo", "neul">>, <<"xo", "neul">> >>,
       << <<"xeo", "je">>, <<"xeo", "je">> >>,
       << <<"geu", "je">>, <<"geu", "je">> >>,
       << <<"xil", "ju", "xil">>, <<"xil", "ju", "xil", " ", "jeon">> >>,
       << <<"han", "dal">>, <<"han", " ", "dal", " ", "jeon">> >> >>

\* re.sub(r'에?\s*다$', '', t)
StripTrailingFiller(t) ==
    IF t # <<>> /\ t[Len(t)] = "da"
    THEN LET a == RStrip(SubSeq(t, 1, Len(t) - 1))
         IN  IF a # <<>> /\ a[Len(a)] = "xe"
             THEN SubSeq(a, 1, Len(a) - 1)
             ELSE a
    ELSE t

AmountUnit(answer) ==
    IF Contains(answer, <<"xeog">>) THEN 100000000
    ELSE IF Contains(answer, <<"cheon", "man">>) THEN 10000000
    ELSE IF Contains(answer, <<"baeg", "man">>) THEN 1000000
    ELSE IF Contains(answer, <<"man">>) THEN 10000
    ELSE 1

\* the yes/no branch of _parse_answer answering in English
ParseYesNoInEnglish(answer) ==
    IF ContainsAny(answer, yes_words) THEN <<"y", "e", "s">>
    ELSE IF ContainsAny(answer, no_words) THEN <<"n", "o">>
    ELSE <<"u", "n", "k", "n", "o", "w", "n">>

ParseYesNo(answer) ==
    IF ContainsAny(answer, yes_words) THEN YES
    ELSE IF ContainsAny(answer, no_words) THEN NO
    ELSE UNCONFIRMED

ParseAmount(answer) ==
    LET digits == RemoveCommas(FirstNumberRun(answer))
    IN  IF digits # <<>>
        THEN FormatThousands(ToInt(digits) * AmountUnit(answer)) \o <<"xwon">>
        ELSE Strip(answer)

RECURSIVE FirstTimeMapping(_, _)
FirstTimeMapping(maps, answer) ==
    IF maps = <<>>
    THEN <<>>
    ELSE IF Contains(answer, maps[1][1])
         THEN maps[1][2]
         ELSE FirstTimeMapping(Tail(maps), answer)

ParseTime(answer) ==
    IF FirstTimeMapping(time_mappings, answer) # <<>>
    THEN FirstTimeMapping(time_mappings, answer)
    ELSE IF Contains(answer, <<"bun">>) /\ Contains(answer, <<"jeon">>)
         THEN Strip(StripTrailingFiller(answer))
         ELSE Strip(answer)

ParseByType(answer, answer_type) ==
    CASE answer_type = "yes_no" -> ParseYesNo(answer)
      [] answer_type = "amount" -> ParseAmount(answer)
      [] answer_type = "time"   -> ParseTime(answer)
      [] OTHER -> Strip(answer)

_parse_answer(raw, answer_type) == ParseByType(Lower(Strip(raw)), answer_type)

(***************************************************************************)
(* Utterances offered to the dialogue                                      *)
(***************************************************************************)
\* "500만원 보냈어요 방금"
U_EMERGENCY == <<"5", "0", "0", "man", "xwon", " ", "bo", "naess", "xeo", "xyo", " ", "bang", "geum">>

\* "의심스러운 전화 이상해요"
U_SEVEN == <<"xui", "sim", "seu", "reo", "xun", " ", "jeon", "hwa", " ", "xi", "sang", "hae", "xyo">>

\* "네"
U_YES == <<"ne">>

\* "25분 전에 다"
U_TIME == <<"2", "5", "bun", " ", "jeon", "xe", " ", "da">>

\* "3000"
U_BARE == <<"3", "0", "0", "0">>

U_BLANK == <<" ">>

\* What a caller may say: sessions driven turn by turn answer the slot
\* questions; sessions that also run the compiled graph are re-assessed on
\* every run, so they carry the utterance that scores 7.
Utterances(v) ==
    CASE v = "graph" -> {U_EMERGENCY, U_SEVEN, U_YES}
      [] v = "fault" -> {U_YES, U_TIME}
      [] v = "improved" -> {U_EMERGENCY, U_YES, U_TIME, U_BARE}
      [] OTHER       -> {U_EMERGENCY, U_YES, U_TIME}

BlankUtterances == {<<>>, U_BLANK}

(***************************************************************************)
(* Session state: the VictimRecoveryState dictionary (core/state.py) with  *)
(* the keys the graph of core/graph.py reads and writes.  A key the        *)
(* dictionary does not hold yet carries the value every reader of the      *)
(* source substitutes for it (False, 0) or ABSENT.                         *)
(***************************************************************************)
ABSENT == <<"<absent>">>

Msg(role, kind, content) == [role |-> role, kind |-> kind, content |-> content]

question_flow ==
    << [field |-> "victim",             type |-> "yes_no"],
       [field |-> "loss_amount",        type |-> "amount"],
       [field |-> "time_context",       type |-> "time"],
       [field |-> "account_frozen",     type |-> "yes_no"],
       [field |-> "reported_to_police", type |-> "yes_no"] >>

SlotFields == {question_flow[i].field : i \in 1..Len(question_flow)}

create_initial_recovery_state ==
    [ messages                 |-> <<>>,
      current_stage            |-> "greeting",
      current_step             |-> "absent",
      greeting_done            |-> FALSE,
      current_question_index   |-> 0,
      urgency_level            |-> 5,
      is_emergency             |-> FALSE,
      info_collection_complete |-> FALSE,
      conversation_turns       |-> 0,
      victim                   |-> ABSENT,
      loss_amount              |-> ABSENT,
      time_context             |-> ABSENT,
      account_frozen           |-> ABSENT,
      reported_to_police       |-> ABSENT ]

AppendMsg(st, m) == [st EXCEPT !.messages = Append(@, m)]

UserIndexes(msgs) == {i \in 1..Len(msgs) : msgs[i].role = "user"}

_get_last_user_message(st) ==
    LET us == UserIndexes(st.messages)
    IN  IF us = {}
        THEN <<>>
        ELSE Strip(st.messages[CHOOSE i \in us : \A j \in us : j <= i].content)

(***************************************************************************)
(* Nodes of StructuredVoicePhishingGraph.  A node mutates the dictionary   *)
(* it is handed; NodeUpTo(st, n) is the dictionary after the first n       *)
(* mutations of the node, which is what an exception raised at that point  *)
(* leaves behind.                                                          *)
(***************************************************************************)
\* _greeting_node marking the greeting as done without saying it
_greeting_node_silent(st) ==
    IF st.greeting_done
    THEN st
    ELSE [st EXCEPT !.current_step = "greeting_complete",
                    !.greeting_done = TRUE,
                    !.current_question_index = 0]

_greeting_node(st) ==
    IF st.greeting_done
    THEN st
    ELSE [AppendMsg(st, Msg("assistant", "greeting", <<>>))
            EXCEPT !.current_step = "greeting_complete",
                   !.greeting_done = TRUE,
                   !.current_question_index = 0]

AssessmentKind(urgency_level) ==
    IF urgency_level >= 8 THEN "assessment_emergency"
    ELSE IF urgency_level >= 6 THEN "assessment_serious"
    ELSE IF urgency_level >= 4 THEN "assessment_concern"
    ELSE "assessment_standard"

\* the branch for a first contact without an utterance
FirstContact(st) ==
    AppendMsg([st EXCEPT !.urgency_level = 5],
              Msg("assistant", "assessment_first", <<>>))

\* the branch for an utterance assessed as urgency_level
Assessed(st, urgency_level) ==
    AppendMsg([st EXCEPT !.urgency_level = urgency_level,
                         !.is_emergency = (urgency_level >= 8)],
              Msg("assistant", AssessmentKind(urgency_level), <<>>))

AssessLast(st, last_message) ==
    [IF last_message = <<>>
     THEN FirstContact(st)
     ELSE Assessed(st, _assess_urgency_smart(last_message))
        EXCEPT !.current_step = "assessment_complete"]

_initial_assessment_node(st) == AssessLast(st, _get_last_user_message(st))

CollectStages == 4

\* The reply of the node: the confirmation of the stored answer followed by
\* the next question, or the closing sentence.
CollectResponse(st, current_index) ==
    IF current_index < Len(question_flow)
    THEN Msg("assistant", "ask_" \o question_flow[current_index + 1].field,
             IF current_index > 0
             THEN st[question_flow[current_index].field]
             ELSE <<>>)
    ELSE Msg("assistant", "collection_done", <<>>)

\* The node as it would be if it closed the collection on asking the last
\* question.
CollectStageClosingEarly(k, st, current_index, n) ==
    IF n < k
    THEN st
    ELSE CASE k = 1 ->
                IF current_index > 0
                THEN [st EXCEPT ![question_flow[current_index].field] =
                         _parse_answer(_get_last_user_message(st),
                                       question_flow[current_index].type)]
                ELSE st
           [] k = 2 ->
                IF current_index < Len(question_flow)
                THEN [st EXCEPT !.current_question_index = current_index + 1,
                                !.info_collection_complete =
                                    (current_index + 1 >= Len(question_flow))]
                ELSE [st EXCEPT !.info_collection_complete = TRUE]
           [] k = 3 -> AppendMsg(st, CollectResponse(st, current_index))
           [] k = 4 -> [st EXCEPT !.current_step = "collecting_info"]

\* The k-th mutation of the node, made when the node gets that far.
CollectStage(k, st, current_index, n) ==
    IF n < k
    THEN st
    ELSE CASE k = 1 ->
                IF current_index > 0
                THEN [st EXCEPT ![question_flow[current_index].field] =
                         _parse_answer(_get_last_user_message(st),
                                       question_flow[current_index].type)]
                ELSE st
           [] k = 2 ->
                IF current_index < Len(question_flow)
                THEN [st EXCEPT !.current_question_index = current_index + 1]
                ELSE [st EXCEPT !.info_collection_complete = TRUE]
           [] k = 3 -> AppendMsg(st, CollectResponse(st, current_index))
           [] k = 4 -> [st EXCEPT !.current_step = "collecting_info"]

\* The node as it would be if it read the utterance as the answer to the
\* question it is about to ask.
_collect_info_node_upto_reading_ahead(st, n) ==
    CollectStage(4,
        CollectStage(3,
            CollectStage(2,
                CollectStage(1, st,
                             Min(st.current_question_index + 1,
                                 Len(question_flow)), n),
                st.current_question_index, n),
            st.current_question_index, n),
        st.current_question_index, n)

_collect_info_node_upto(st, n) ==
    CollectStage(4,
        CollectStage(3,
            CollectStage(2,
                CollectStage(1, st, st.current_question_index, n),
                st.current_question_index, n),
            st.current_question_index, n),
        st.current_question_index, n)

_collect_info_node(st) == _collect_info_node_upto(st, CollectStages)

FinalStages == 2

GuidanceKind(urgency_level) ==
    IF urgency_level >= 8 THEN "guidance_high"
    ELSE IF urgency_level >= 6 THEN "guidance_medium"
    ELSE "guidance_low"

_emergency_action_node_upto(st, n) ==
    LET st1 == IF n >= 1
               THEN AppendMsg(st, Msg("assistant", GuidanceKind(st.urgency_level), <<>>))
               ELSE st
    IN  IF n >= 2 THEN [st1 EXCEPT !.current_step = "emergency_complete"] ELSE st1

_emergency_action_node(st) == _emergency_action_node_upto(st, FinalStages)

CompletionKind(urgency_level) ==
    IF urgency_level >= 8 THEN "completion_high"
    ELSE IF urgency_level >= 6 THEN "completion_medium"
    ELSE "completion_low"

_complete_node_upto(st, n) ==
    LET st1 == IF n >= 1
               THEN AppendMsg(st, Msg("assistant", CompletionKind(st.urgency_level), <<>>))
               ELSE st
    IN  IF n >= 2 THEN [st1 EXCEPT !.current_step = "consultation_complete"] ELSE st1

\* The node as it would be if it reopened the collection on closing the
\* consultation.
_complete_node_reopening(st) ==
    [_complete_node_upto(st, FinalStages) EXCEPT !.info_collection_complete = FALSE]

_complete_node(st) == _complete_node_upto(st, FinalStages)

(***************************************************************************)
(* StructuredVoicePhishingGraph.start_conversation and                     *)
(* continue_conversation (the turn-by-turn driver)                         *)
(***************************************************************************)
start_conversation ==
    _initial_assessment_node(_greeting_node(create_initial_recovery_state))

PLEASE_REPEAT == Msg("assistant", "please_repeat", <<>>)

ANYTHING_ELSE == Msg("assistant", "anything_else", <<>>)

\* "... 긴급한 경우 대한법률구조공단 132번으로 연락하세요."
SAFE_REPLY_132 == Msg("assistant", "safe_reply_132", <<>>)

\* "... 긴급한 경우 112로 연락하세요."
SAFE_REPLY_112 == Msg("assistant", "safe_reply_112", <<>>)

UserMsg(user_input) == Msg("user", "utterance", user_input)

AddUserTurn(st, user_input) ==
    [AppendMsg(st, UserMsg(user_input)) EXCEPT !.conversation_turns = @ + 1]

AllStages == CollectStages + FinalStages

\* The try block of continue_conversation, cut after its first n mutations.
\* `if state.get("info_collection_complete")` after the collect node
AfterCollect(c, n) ==
    IF n > CollectStages /\ c.info_collection_complete
    THEN IF c.urgency_level >= 7
         THEN _emergency_action_node_upto(c, n - CollectStages)
         ELSE _complete_node_upto(c, n - CollectStages)
    ELSE c

\* The turn as it would be if a finished session went back to collecting.
TurnBodyAtReopening(st, current_step, n) ==
    IF current_step \in {"greeting_complete", "assessment_complete"}
    THEN _collect_info_node_upto(st, Min(n, CollectStages))
    ELSE IF current_step = "collecting_info"
         THEN AfterCollect(_collect_info_node_upto(st, Min(n, CollectStages)), n)
         ELSE IF n >= 1
              THEN [AppendMsg(st, ANYTHING_ELSE) EXCEPT !.current_step = "collecting_info"]
              ELSE st

TurnBodyAt(st, current_step, n) ==
    IF current_step \in {"greeting_complete", "assessment_complete"}
    THEN _collect_info_node_upto(st, Min(n, CollectStages))
    ELSE IF current_step = "collecting_info"
         THEN AfterCollect(_collect_info_node_upto(st, Min(n, CollectStages)), n)
         ELSE IF n >= 1 THEN AppendMsg(st, ANYTHING_ELSE) ELSE st

TurnBody(st, n) ==
    TurnBodyAt(st,
               IF st.current_step = "absent" THEN "greeting_complete" ELSE st.current_step,
               n)

\* The handler as it would be if a blank utterance counted as a turn.
continue_conversation_counting_blanks(st, user_input, raised, n) ==
    IF IsBlank(user_input)
    THEN [AppendMsg(st, PLEASE_REPEAT) EXCEPT !.conversation_turns = @ + 1]
    ELSE IF raised
         THEN AppendMsg(TurnBody(AddUserTurn(st, user_input), n), SAFE_REPLY_132)
         ELSE TurnBody(AddUserTurn(st, user_input), AllStages)

continue_conversation(st, user_input, raised, n) ==
    IF IsBlank(user_input)
    THEN AppendMsg(st, PLEASE_REPEAT)
    ELSE IF raised
         THEN AppendMsg(TurnBody(AddUserTurn(st, user_input), n), SAFE_REPLY_132)
         ELSE TurnBody(AddUserTurn(st, user_input), AllStages)

(***************************************************************************)
(* The compiled graph (_build_structured_graph) run by                     *)
(* HighPerformanceConversationManager.continue_conversation with           *)
(* recursion_limit 5.  The run threads one dictionary through the nodes,   *)
(* as each node returns the dictionary it mutated; a run that needs more   *)
(* node executions than the limit raises and leaves that dictionary as the *)
(* last node left it.                                                      *)
(***************************************************************************)
recursion_limit == 5

_route_after_collect(st) ==
    IF st.current_question_index < Len(question_flow)
    THEN "collect_info"
    ELSE IF st.is_emergency \/ st.urgency_level >= 7
         THEN "emergency_action"
         ELSE "complete"

\* _route_after_collect marks the collection complete on the dictionary it
\* is handed once no question is left.
RouterMark(c) ==
    IF c.current_question_index < Len(question_flow)
    THEN c
    ELSE [c EXCEPT !.info_collection_complete = TRUE]

NodeResult(node, st) ==
    CASE node = "greeting"           -> _greeting_node(st)
      [] node = "initial_assessment" -> _initial_assessment_node(st)
      [] node = "collect_info"       -> RouterMark(_collect_info_node(st))
      [] node = "emergency_action"   -> _emergency_action_node(st)
      [] node = "complete"           -> _complete_node(st)

NextNode(node, st) ==
    CASE node = "greeting"           -> "initial_assessment"
      [] node = "initial_assessment" -> "collect_info"
      [] node = "collect_info"       -> _route_after_collect(st)
      [] node = "emergency_action"   -> "complete"
      [] node = "complete"           -> "END"

RECURSIVE RunGraph(_, _, _)
RunNext(node, st1, steps) == RunGraph(NextNode(node, st1), st1, steps + 1)

RunGraph(node, st, steps) ==
    IF node = "END"
    THEN [state |-> st, raised |-> FALSE]
    ELSE IF steps >= recursion_limit
         THEN [state |-> st, raised |-> TRUE]
         ELSE RunNext(node, NodeResult(node, st), steps)

\* The state a handler returns for a finished run: the except branch appends
\* reply to the dictionary the nodes were mutating.
RunOutcome(run, reply) ==
    IF run.raised THEN AppendMsg(run.state, reply) ELSE run.state

graph_continue_conversation(st, user_input) ==
    IF IsBlank(user_input)
    THEN AppendMsg(st, PLEASE_REPEAT)
    ELSE RunOutcome(RunGraph("greeting", AddUserTurn(st, user_input), 0),
                    SAFE_REPLY_112)

(***************************************************************************)
(* LLM collaborator: GeminiAssistant (services/gemini_assistant.py).  The  *)
(* raw output of the model is either a JSON object with the fields         *)
(* response and urgency_level ("json"), text that json.loads rejects       *)
(* ("plain"), an exception raised by the call ("exception"), or no answer  *)
(* at all ("hang").  A character outside ASCII and Hangul is written as    *)
(* one string "U+XXXX", a line break as "\n".                              *)
(***************************************************************************)
PREFIX_MSAFER ==
    << "U+1F6A8", " ", "jeug", "si", ":", " ", "m", "S", "A", "F", "E", "R",
       " ", "(", "w", "w", "w", ".", "m", "s", "a", "f", "e", "r", ".", "o",
       "r", ".", "k", "r", ")", "xe", "seo", " ", "myeong", "xui", "do",
       "xyong", " ", "cha", "dan", "ha", "se", "xyo", ".", "\n", "\n" >>

SUFFIX_ZERO ==
    << "\n", "\n", "U+1F4B0", " ", "hwag", "sil", "han", " ", "ji", "xwon",
       ":", " ", "bo", "xi", "seu", "pi", "sing", "je", "ro", " ", "(", "v",
       "o", "i", "c", "e", "p", "h", "i", "s", "i", "n", "g", "z", "e", "r",
       "o", ".", "c", "o", ".", "k", "r", ")", "xe", "seo", " ", "3", "0",
       "0", "man", "xwon", " ", "saeng", "hwal", "bi", " ", "ji", "xwon" >>

PREFIX_132 ==
    << "U+1F4DE", " ", "meon", "jeo", ":", " ", "dae", "han", "beob", "ryul",
       "gu", "jo", "gong", "dan", " ", "1", "3", "2", "beon", " ", "mu",
       "ryo", " ", "sang", "dam", "bad", "xeu", "se", "xyo", ".", "\n",
       "\n" >>

SUFFIX_3DAY ==
    << "\n", "\n", "U+1F3AF", " ", "cham", "go", ":", " ", "3", "xil", " ",
       "hwan", "geub", " ", "seong", "gong", "ryul", "xeun", " ", "3", "0",
       "-", "4", "0", "%", "xib", "ni", "da", ".", " ", "bo", "xi", "seu",
       "pi", "sing", "je", "ro", " ", "ji", "xwon", "xi", " ", "deo", " ",
       "hwag", "sil", "hal", " ", "su", " ", "xiss", "xeo", "xyo", "." >>

RULE_REPLY_HIGH ==
    << "U+1F6A8", " ", "jeug", "si", " ", "sil", "haeng", "ha", "se", "xyo",
       ":", "\n", "\n", "1", "U+FE0F", "U+20E3", " ", "m", "S", "A", "F",
       "E", "R", " ", "(", "w", "w", "w", ".", "m", "s", "a", "f", "e", "r",
       ".", "o", "r", ".", "k", "r", ")", "xe", "seo", " ", "myeong", "xui",
       "do", "xyong", " ", "cha", "dan", "\n", "2", "U+FE0F", "U+20E3", " ",
       "bo", "xi", "seu", "pi", "sing", "je", "ro", " ", "(", "v", "o", "i",
       "c", "e", "p", "h", "i", "s", "i", "n", "g", "z", "e", "r", "o", ".",
       "c", "o", ".", "k", "r", ")", "xe", "seo", " ", "3", "0", "0", "man",
       "xwon", " ", "saeng", "hwal", "bi", " ", "ji", "xwon", " ", "sin",
       "cheong", "\n", "3", "U+FE0F", "U+20E3", " ", "p", "a", "y", "i", "n",
       "f", "o", ".", "o", "r", ".", "k", "r", "xe", "seo", " ", "gye",
       "jwa", " ", "myeong", "xui", "do", "xyong", " ", "hwag", "xin", "\n",
       "\n", "U+1F4A1", " ", "3", "xil", " ", "hwan", "geub", "bo", "da",
       " ", "3", "0", "0", "man", "xwon", " ", "ji", "xwon", "xi", " ",
       "deo", " ", "hwag", "sil", "hab", "ni", "da", "!" >>

RULE_REPLY_MEDIUM ==
    << "U+1F4DE", " ", "jeon", "mun", "ga", " ", "sang", "dam", " ", "xu",
       "seon", ":", "\n", "\n", "1", "U+FE0F", "U+20E3", " ", "dae", "han",
       "beob", "ryul", "gu", "jo", "gong", "dan", " ", "1", "3", "2", "beon",
       " ", "mu", "ryo", " ", "sang", "dam", "\n", "2", "U+FE0F", "U+20E3",
       " ", "bo", "xi", "seu", "pi", "sing", "je", "ro", " ", "ji", "xwon",
       " ", "jo", "geon", " ", "hwag", "xin", "\n", "3", "U+FE0F", "U+20E3",
       " ", "m", "S", "A", "F", "E", "R", " ", "myeong", "xui", "do",
       "xyong", " ", "bang", "ji", " ", "seol", "jeong", "\n", "\n", "gae",
       "xin", " ", "sang", "hwang", "xe", " ", "maj", "neun", " ", "choe",
       "jeog", " ", "jeon", "ryag", "xeul", " ", "su", "rib", "ha", "se",
       "xyo", "." >>

RULE_REPLY_LOW ==
    << "U+1F6E1", "U+FE0F", " ", "xye", "bang", " ", "jung", "sim", " ",
       "jo", "chi", ":", "\n", "\n", "1", "U+FE0F", "U+20E3", " ", "m", "S",
       "A", "F", "E", "R", " ", "(", "w", "w", "w", ".", "m", "s", "a", "f",
       "e", "r", ".", "o", "r", ".", "k", "r", ")", " ", "myeong", "xui",
       "do", "xyong", " ", "bang", "ji", " ", "seo", "bi", "seu", " ",
       "deung", "rog", "\n", "2", "U+FE0F", "U+20E3", " ", "1", "3", "2",
       "beon", "xeu", "ro", " ", "jeong", "hwag", "han", " ", "sang",
       "hwang", " ", "hwag", "xin", "\n", "3", "U+FE0F", "U+20E3", " ",
       "sil", "je", " ", "pi", "hae", "xin", "ji", " ", "jeon", "mun", "ga",
       "xwa", " ", "hwag", "xin", "\n", "\n", "xye", "bang", "xi", " ", "ga",
       "jang", " ", "jung", "xyo", "hab", "ni", "da", "." >>

EMERGENCY_FALLBACK_REPLY ==
    << "si", "seu", "tem", " ", "xo", "ryu", "ga", " ", "bal", "saeng",
       "haess", "seub", "ni", "da", ".", "\n", "\n", "U+1F6A8", " ", "gin",
       "geub", "han", " ", "gyeong", "xu", ":", "\n", "1", "U+FE0F",
       "U+20E3", " ", "m", "S", "A", "F", "E", "R", " ", "(", "w", "w", "w",
       ".", "m", "s", "a", "f", "e", "r", ".", "o", "r", ".", "k", "r", ")",
       "xe", "seo", " ", "myeong", "xui", "do", "xyong", " ", "cha", "dan",
       "\n", "2", "U+FE0F", "U+20E3", " ", "dae", "han", "beob", "ryul",
       "gu", "jo", "gong", "dan", " ", "1", "3", "2", "beon", " ", "mu",
       "ryo", " ", "sang", "dam", "\n", "3", "U+FE0F", "U+20E3", " ", "bo",
       "xi", "seu", "pi", "sing", "je", "ro", " ", "(", "v", "o", "i", "c",
       "e", "p", "h", "i", "s", "i", "n", "g", "z", "e", "r", "o", ".", "c",
       "o", ".", "k", "r", ")", " ", "ji", "xwon", " ", "hwag", "xin", "\n",
       "\n", "xi", " ", "3", "ga", "ji", "man", " ", "gi", "xeog", "ha",
       "se", "xyo", "!" >>


\* "은행에 지급정지를 신청하세요"
LLM_SHORT ==
    << "xeun", "haeng", "xe", " ", "ji", "geub", "jeong", "ji", "reul", " ",
       "sin", "cheong", "ha", "se", "xyo" >>

\* a reply of more than AI_RESPONSE_MAX_LENGTH characters
LLM_LONG ==
    << "xu", "seon", " ", "song", "geum", "han", " ", "xeun", "haeng", " ",
       "go", "gaeg", "sen", "teo", "xe", " ", "jeon", "hwa", "hae", "seo",
       " ", "ji", "geub", "jeong", "ji", "reul", " ", "sin", "cheong", "ha",
       "si", "go", " ", "ga", "kka", "xun", " ", "gyeong", "chal", "seo",
       "xe", " ", "bang", "mun", "ha", "xyeo", " ", "sa", "geon", "sa", "go",
       "sa", "sil", "hwag", "xin", "xwon", "xeul", " ", "bal", "geub", "bad",
       "xa", " ", "xeun", "haeng", "xe", " ", "je", "chul", "ha", "sin", " ",
       "da", "xeum", " ", "chu", "ga", " ", "pi", "hae", "ga", " ", "xeobs",
       "neun", "ji", " ", "kkom", "kkom", "ha", "ge", " ", "hwag", "xin",
       "hae", " ", "bo", "si", "gi", " ", "ba", "rab", "ni", "da" >>

AI_RESPONSE_MAX_LENGTH == 80

ELLIPSIS == <<".", ".", ".">>

\* s[:n]
Take(t, n) == SubSeq(t, 1, Min(n, Len(t)))

LLMOut(kind, text, urgency_level) ==
    [kind |-> kind, text |-> text, urgency_level |-> urgency_level]

\* The reply is whatever the model returns: the prompt asks for an
\* urgency_level of 1-10, nothing makes the model comply.
LLMOutcomes ==
    {LLMOut("json", t, g) : t \in {LLM_SHORT, LLM_LONG, <<>>}, g \in {5, 9}}
    \cup {LLMOut("json", LLM_SHORT, g) : g \in {0, 15}}
    \cup {LLMOut("plain", t, 0) : t \in {LLM_SHORT, LLM_LONG, <<>>}}
    \cup {LLMOut("exception", <<>>, 0), LLMOut("hang", <<>>, 0)}

NoInfo == [amount |-> <<>>, time |-> <<>>, actions_taken |-> <<>>]

Reply(response, urgency_level, next_priority) ==
    [response |-> response, urgency_level |-> urgency_level,
     extracted_info |-> NoInfo, next_priority |-> next_priority,
     processing_mode |-> "absent"]

raw_urgent_words ==
    { <<"gin", "geub">>, <<"jeug", "si">>, <<"ppal", "ri">>,
      <<"m", "s", "a", "f", "e", "r">>,
      <<"bo", "xi", "seu", "pi", "sing", "je", "ro">> }

raw_consult_words ==
    { <<"sang", "dam">>, <<"1", "3", "2">>, <<"hwag", "xin">> }

_parse_raw_response(raw_text) ==
    Reply(IF Len(raw_text) > 200 THEN Take(raw_text, 200) \o ELLIPSIS ELSE raw_text,
          IF ContainsAny(Lower(raw_text), raw_urgent_words) THEN 8
          ELSE IF ContainsAny(Lower(raw_text), raw_consult_words) THEN 6
          ELSE 5,
          "continue")

\* The part of _call_gemini_api after the model has answered.
_call_gemini_api(out) ==
    IF out.kind = "json"
    THEN Reply(out.text, out.urgency_level, "llm")
    ELSE _parse_raw_response(Strip(out.text))

\* The four rewrites of enhanced['response'], in the order of the code.
EnhanceStep(k, urgency, r) ==
    CASE k = 1 ->
            IF urgency >= 8
            THEN IF ~Contains(Lower(r), <<"m", "s", "a", "f", "e", "r">>)
                 THEN PREFIX_MSAFER \o r
                 ELSE r
            ELSE IF urgency >= 6 /\ ~Contains(r, <<"1", "3", "2">>)
                 THEN PREFIX_132 \o r
                 ELSE r
      [] k = 2 ->
            IF urgency >= 8
               /\ ~Contains(r, <<"bo", "xi", "seu", "pi", "sing", "je", "ro">>)
            THEN r \o SUFFIX_ZERO
            ELSE r
      [] k = 3 ->
            IF urgency >= 7 /\ Contains(r, <<"3", "xil">>)
            THEN r \o SUFFIX_3DAY
            ELSE r
      [] k = 4 ->
            IF Len(r) > AI_RESPONSE_MAX_LENGTH
            THEN Take(r, AI_RESPONSE_MAX_LENGTH - 3) \o ELLIPSIS
            ELSE r

_enhance_practical_guidance(response) ==
    [response EXCEPT !.response =
        EnhanceStep(4, response.urgency_level,
            EnhanceStep(3, response.urgency_level,
                EnhanceStep(2, response.urgency_level,
                    EnhanceStep(1, response.urgency_level, response.response))))]

urgent_words ==
    << <<"don">>, <<"song", "geum">>, <<"bo", "naess">>, <<"xi", "che">>,
       <<"geub", "hae">>, <<"do", "xwa">>, <<"sa", "gi">>, <<"xeog">>,
       <<"man", "xwon">> >>

RECURSIVE CountWords(_, _)
CountWords(ws, t) ==
    IF ws = <<>>
    THEN 0
    ELSE (IF Contains(t, ws[1]) THEN 1 ELSE 0) + CountWords(Tail(ws), t)

PracticalReply(urgency) ==
    Reply(IF urgency >= 8 THEN RULE_REPLY_HIGH
          ELSE IF urgency >= 6 THEN RULE_REPLY_MEDIUM
          ELSE RULE_REPLY_LOW,
          urgency, "practical_guidance")

_practical_rule_based_fallback(user_input) ==
    PracticalReply(Min(3 + 2 * CountWords(urgent_words, Lower(user_input)), 10))

_practical_emergency_fallback ==
    Reply(EMERGENCY_FALLBACK_REPLY, 8, "emergency_contact")

\* The value analyze_and_respond returns once the model call has ended.
analyze_and_respond(is_enabled, user_input, out) ==
    IF ~is_enabled
    THEN _practical_rule_based_fallback(user_input)
    ELSE IF out.kind = "exception"
         THEN _practical_emergency_fallback
         ELSE _enhance_practical_guidance(_call_gemini_api(out))


(***************************************************************************)
(* Rule-based replies and the LLM call of HybridVoicePhishingGraph         *)
(* (core/hybrid_graph_system.py)                                           *)
(***************************************************************************)
CRITICAL_EMERGENCY_RESPONSE ==
    << "U+1F6A8", " ", "mae", "xu", " ", "gin", "geub", "han", " ", "sang",
       "hwang", "xeu", "ro", " ", "bo", "xib", "ni", "da", "!", "\n", "\n",
       "*", "*", "ji", "geum", " ", "jeug", "si", " ", "hae", "xya", " ",
       "hal", " ", "geos", ":", "*", "*", "\n", "1", "U+FE0F", "U+20E3", " ",
       "1", "1", "2", "(", "gyeong", "chal", ")", " ", "tto", "neun", " ",
       "1", "3", "3", "2", "(", "geum", "gam", "xwon", ")", "xe", " ", "sin",
       "go", "\n", "2", "U+FE0F", "U+20E3", " ", "song", "geum", "han", " ",
       "xeun", "haeng", " ", "go", "gaeg", "sen", "teo", "xe", " ", "ji",
       "geub", "jeong", "ji", " ", "sin", "cheong", " ", " ", "\n", "3",
       "U+FE0F", "U+20E3", " ", "hyu", "dae", "pon", " ", "bi", "haeng",
       "gi", "mo", "deu", " ", "jeon", "hwan", "\n", "\n", "U+26A0",
       "U+FE0F", " ", "*", "*", "jung", "xyo", "*", "*", ":", " ", "3",
       "xil", " ", "xi", "nae", " ", "gyeong", "chal", "seo", "xe", "seo",
       " ", "sa", "geon", "sa", "go", "sa", "sil", "hwag", "xin", "xwon",
       " ", "bal", "geub", "bad", "xa", " ", "xeun", "haeng", " ", "je",
       "chul", " ", "pil", "su", "!", "\n", "\n", "xeo", "tteon", " ", "jo",
       "chi", "bu", "teo", " ", "ha", "go", " ", "gye", "sin", "ga", "xyo",
       "?" >>

EMERGENCY_RESPONSE ==
    << "sang", "hwang", "xi", " ", "sim", "gag", "hae", " ", "bo", "xib",
       "ni", "da", ".", " ", "ppa", "reu", "ge", " ", "do", "xwa", "deu",
       "ri", "gess", "seub", "ni", "da", ".", "\n", "\n", "U+1F6A8", " ",
       "*", "*", "jeug", "si", " ", "jo", "chi", "sa", "hang", ":", "*", "*",
       "\n", "U+2022", " ", "1", "1", "2", "(", "gyeong", "chal", ")", " ",
       "tto", "neun", " ", "1", "3", "3", "2", "(", "geum", "gam", "xwon",
       ")", " ", "sin", "go", "\n", "U+2022", " ", "song", "geum", "han",
       " ", "xeun", "haeng", "xe", " ", "ji", "geub", "jeong", "ji", " ",
       "sin", "cheong", "\n", "U+2022", " ", "hyu", "dae", "pon", " ", "bo",
       "xan", " ", "seol", "jeong", "\n", "\n", "ji", "geum", "kka", "ji",
       " ", "xeo", "tteon", " ", "jo", "chi", "reul", " ", "chwi", "ha",
       "syeoss", "na", "xyo", "?" >>

CONCERN_RESPONSE ==
    << "geog", "jeong", "doe", "neun", " ", "sang", "hwang", "xi", "si",
       "gun", "xyo", ".", " ", "ja", "se", "han", " ", "nae", "xyong",
       "xeul", " ", "deud", "go", " ", "do", "xum", "xeul", " ", "deu", "ri",
       "gess", "seub", "ni", "da", ".", "\n", "\n", "xeo", "tteon", " ",
       "xil", "xi", " ", "xiss", "xeoss", "neun", "ji", " ", "cha", "geun",
       "cha", "geun", " ", "mal", "sseum", "hae", " ", "ju", "si", "gess",
       "xeo", "xyo", "?", "\n", "-", " ", "xeon", "je", " ", "xil", "xeo",
       "nan", " ", "xil", "xin", "ga", "xyo", "?", "\n", "-", " ", "xeo",
       "tteon", " ", "pi", "hae", "ga", " ", "xiss", "xeoss", "na", "xyo",
       "?", "\n", "-", " ", "ji", "geum", "kka", "ji", " ", "chwi", "han",
       " ", "jo", "chi", "ga", " ", "xiss", "na", "xyo", "?" >>

STANDARD_RESPONSE ==
    << "bo", "xi", "seu", "pi", "sing", " ", "sang", "dam", "sen", "teo",
       "xib", "ni", "da", ".", " ", "\n", "\n", "xeo", "tteon", " ", "sang",
       "hwang", "xin", "ji", " ", "mal", "sseum", "hae", " ", "ju", "si",
       "myeon", " ", "jeog", "jeol", "han", " ", "do", "xum", "xeul", " ",
       "deu", "ri", "gess", "seub", "ni", "da", ".", " ", "\n", "hog", "si",
       " ", "xui", "sim", "seu", "reo", "xun", " ", "xyeon", "rag", "xeul",
       " ", "bad", "xeu", "syeoss", "geo", "na", " ", "pi", "hae", "ga", " ",
       "xiss", "xeu", "syeoss", "na", "xyo", "?" >>

EMERGENCY_CONTACTS ==
    << "\n", "\n", "U+1F6A8", " ", "gin", "geub", "xyeon", "rag", "cheo",
       ":", " ", "1", "1", "2", "(", "gyeong", "chal", ")", ",", " ", "1",
       "3", "3", "2", "(", "geum", "gam", "xwon", ")" >>

three_day_rule ==
    << "3", "xil", " ", "xi", "nae", " ", "gyeong", "chal", "seo", "xe",
       "seo", " ", "sa", "geon", "sa", "go", "sa", "sil", "hwag", "xin",
       "xwon", "xeul", " ", "bal", "geub", "bad", "xa", " ", "xeun", "haeng",
       "xe", " ", "je", "chul", "hae", "xya", " ", "hwan", "geub", " ", "ga",
       "neung", "hab", "ni", "da" >>

THREE_DAY_PREFIX ==
    << "\n", "\n", "U+26A0", "U+FE0F", " " >>

URGENT_FALLBACK_RESPONSE ==
    << "gin", "geub", "han", " ", "sang", "hwang", "xeu", "ro", " ", "bo",
       "xib", "ni", "da", ".", " ", "\n", " ", " ", " ", " ", " ", " ", " ",
       " ", " ", " ", " ", " ", "\n", "U+1F6A8", " ", "jeug", "si", " ",
       "xyeon", "rag", "cheo", ":", "\n", "U+2022", " ", "gyeong", "chal",
       ":", " ", "1", "1", "2", "\n", "U+2022", " ", "geum", "xyung", "gam",
       "dog", "xwon", ":", " ", "1", "3", "3", "2", "\n", "U+2022", " ",
       "song", "geum", "han", " ", "xeun", "haeng", " ", "go", "gaeg", "sen",
       "teo", "\n", "\n", "ji", "geub", "jeong", "ji", " ", "sin", "cheong",
       "xeul", " ", "choe", "xu", "seon", "xeu", "ro", " ", "ha", "se",
       "xyo", "." >>

GENERAL_FALLBACK_RESPONSE ==
    << "si", "seu", "tem", "xe", " ", "xil", "si", "jeog", "xin", " ", "mun",
       "je", "ga", " ", "xiss", "seub", "ni", "da", ".", " ", "gin", "geub",
       "han", " ", "gyeong", "xu", " ", "1", "1", "2", "na", " ", "1", "3",
       "3", "2", "ro", " ", "jig", "jeob", " ", "xyeon", "rag", "ha", "se",
       "xyo", ".", " ", "da", "si", " ", "mal", "sseum", "hae", " ", "ju",
       "si", "gess", "xeo", "xyo", "?" >>


high_urgency_words ==
    << <<"don">>, <<"song", "geum">>, <<"bo", "naess">>, <<"xi", "che">>,
       <<"geub", "hae">>, <<"ppal", "ri">>, <<"do", "xwa">>, <<"sa", "gi">>,
       <<"sog", "xass">> >>

medium_urgency_words ==
    << <<"xaeb">>, <<"seol", "chi">>, <<"ring", "keu">>, <<"xui", "sim">>,
       <<"xi", "sang">> >>

\* "금액 언급됨", "시간 정보 있음", "일부 조치 취함"
AMOUNT_MENTIONED == <<"geum", "xaeg", " ", "xeon", "geub", "doem">>

TIME_MENTIONED == <<"si", "gan", " ", "jeong", "bo", " ", "xiss", "xeum">>

ACTIONS_MENTIONED == <<"xil", "bu", " ", "jo", "chi", " ", "chwi", "ham">>

RulesUrgency(user_lower) ==
    Min(3 + 3 * CountWords(high_urgency_words, user_lower)
          + CountWords(medium_urgency_words, user_lower)
          + (IF ContainsAny(user_lower, {<<"xeog">>, <<"cheon", "man">>, <<"baeg", "man">>})
             THEN 4
             ELSE IF ContainsAny(user_lower, {<<"man", "xwon">>, <<"xwon">>})
                  THEN 2
                  ELSE 0)
          + (IF ContainsAny(user_lower, {<<"bun", " ", "jeon">>,
                                         <<"si", "gan", " ", "jeon">>,
                                         <<"bang", "geum">>})
             THEN 3
             ELSE 0),
        10)

RulesReply(user_lower, urgency) ==
        [ response |-> IF urgency >= 9 THEN CRITICAL_EMERGENCY_RESPONSE
                       ELSE IF urgency >= 7 THEN EMERGENCY_RESPONSE
                       ELSE IF urgency >= 5 THEN CONCERN_RESPONSE
                       ELSE STANDARD_RESPONSE,
          urgency_level |-> urgency,
          extracted_info |->
              [ amount |-> IF ContainsAny(user_lower, {<<"xeog">>, <<"man", "xwon">>, <<"xwon">>})
                           THEN AMOUNT_MENTIONED ELSE <<>>,
                time |-> IF ContainsAny(user_lower, {<<"bun">>, <<"si", "gan">>, <<"jeon">>,
                                                     <<"xo", "neul">>, <<"xeo", "je">>})
                         THEN TIME_MENTIONED ELSE <<>>,
                actions_taken |-> IF ContainsAny(user_lower, {<<"sin", "go">>, <<"gyeong", "chal">>,
                                                              <<"xeun", "haeng">>})
                                  THEN ACTIONS_MENTIONED ELSE <<>> ],
          next_priority |-> IF urgency >= 8 THEN "emergency_action" ELSE "continue",
          processing_mode |-> "rule_based" ]

_process_with_rules_fallback(user_input) ==
    RulesReply(Lower(user_input), RulesUrgency(Lower(user_input)))

_add_emergency_safety_net(response) ==
    LET original_response == response.response
        r1 == IF ~Contains(original_response, <<"1", "1", "2">>)
                 /\ ~Contains(original_response, <<"1", "3", "3", "2">>)
              THEN original_response \o EMERGENCY_CONTACTS
              ELSE original_response
        r2 == IF ~Contains(original_response, <<"3", "xil">>)
              THEN r1 \o THREE_DAY_PREFIX \o three_day_rule
              ELSE r1
    IN  [response EXCEPT !.response = r2]

\* The value HybridVoicePhishingGraph._process_with_gemini returns once the
\* model call has ended.
SafetyNetIfUrgent(response) ==
    IF response.urgency_level >= 8
    THEN _add_emergency_safety_net(response)
    ELSE response

_process_with_gemini(is_enabled, user_input, out) ==
    SafetyNetIfUrgent(analyze_and_respond(is_enabled, user_input, out))

(***************************************************************************)
(* The assistant object: its fields, and the value its last call returned  *)
(***************************************************************************)
NoReply == Reply(<<>>, 0, "absent")

GeminiAssistant(is_enabled) ==
    [ is_enabled |-> is_enabled,
      session_state |-> [total_turns |-> 0, urgency_level |-> 3,
                         practical_guidance_provided |-> FALSE],
      conversation_history |-> <<>>,
      awaiting |-> FALSE,
      response |-> NoReply ]

\* analyze_and_respond's bookkeeping on the path that returns the model's
\* reply (_update_session_state, conversation_history.append)
RecordTurn(g, user_input, validated_response) ==
    [g EXCEPT !.session_state =
                  [total_turns |-> @.total_turns + 1,
                   urgency_level |-> validated_response.urgency_level,
                   practical_guidance_provided |-> TRUE],
              !.conversation_history =
                  Append(@, [user |-> user_input,
                             assistant |-> validated_response.response])]

(***************************************************************************)
(* HybridVoicePhishingGraph (core/hybrid_graph_system.py): nodes, routing  *)
(* and the graph run of start_conversation / continue_conversation.        *)
(*                                                                         *)
(* _ai_processing_node is a synchronous function that calls                *)
(* asyncio.create_task and loop.run_until_complete.  On a thread without a *)
(* running event loop ("worker") create_task raises RuntimeError before    *)
(* the try block, so the node raises; on the thread of the running loop    *)
(* ("loop") run_until_complete raises RuntimeError inside the try block    *)
(* and the node answers by rule.  Which of the two happens is decided by   *)
(* how the graph library runs a synchronous node, so env.node_thread       *)
(* ranges over both.                                                       *)
(***************************************************************************)
HybridInitialState ==
    [ messages                 |-> <<>>,
      current_step             |-> "absent",
      greeting_done            |-> FALSE,
      urgency_level            |-> 5,
      conversation_turns       |-> 0,
      loss_amount              |-> ABSENT,
      time_context             |-> ABSENT,
      actions_taken            |-> ABSENT,
      emergency_guidance_provided |-> FALSE,
      consultation_complete    |-> FALSE ]

hybrid_greeting_node(st) ==
    IF st.greeting_done
    THEN st
    ELSE [AppendMsg(st, Msg("assistant", "greeting", <<>>))
            EXCEPT !.current_step = "greeting_complete",
                   !.greeting_done = TRUE]

AiNodeRaises(e) == e.use_ai /\ e.node_thread = "worker"

\* the node from the point where response_data is known
ApplyResponse(st, response_data) ==
    [AppendMsg(st, Msg("assistant", "ai_response", response_data.response))
        EXCEPT !.urgency_level = response_data.urgency_level,
               !.current_step = "ai_processed",
               !.conversation_turns = @ + 1,
               !.loss_amount = IF response_data.extracted_info.amount # <<>>
                               THEN response_data.extracted_info.amount ELSE @,
               !.time_context = IF response_data.extracted_info.time # <<>>
                                THEN response_data.extracted_info.time ELSE @,
               !.actions_taken = IF response_data.extracted_info.actions_taken # <<>>
                                 THEN response_data.extracted_info.actions_taken ELSE @]

_ai_processing_node(st) ==
    ApplyResponse(st, _process_with_rules_fallback(_get_last_user_message(st)))

\* The node as it would be if it did not note that the guide was given.
_emergency_response_node_forgetting(st) ==
    LET st1 == IF st.urgency_level >= 8
               THEN AppendMsg(st, Msg("assistant", "emergency_guidance", <<>>))
               ELSE st
    IN  [st1 EXCEPT !.current_step = "emergency_handled"]

_emergency_response_node(st) ==
    LET st1 == IF st.urgency_level >= 8
               THEN [AppendMsg(st, Msg("assistant", "emergency_guidance", <<>>))
                        EXCEPT !.emergency_guidance_provided = TRUE]
               ELSE st
    IN  [st1 EXCEPT !.current_step = "emergency_handled"]

_completion_node(st) ==
    [AppendMsg(st, Msg("assistant", "consultation_summary", <<>>))
        EXCEPT !.current_step = "consultation_complete",
               !.consultation_complete = TRUE]

HYBRID_COMPLETION_TURNS == 15

HYBRID_EMERGENCY_COMPLETION_TURNS == 20

_route_after_ai(st) ==
    IF st.urgency_level >= 8 /\ ~st.emergency_guidance_provided
    THEN "emergency_response"
    ELSE IF st.conversation_turns >= HYBRID_COMPLETION_TURNS
         THEN "completion"
         ELSE "ai_processing"

_route_after_emergency(st) ==
    IF st.conversation_turns >= HYBRID_EMERGENCY_COMPLETION_TURNS
    THEN "completion"
    ELSE "ai_processing"

HybridNodeResult(node, st) ==
    CASE node = "greeting"           -> hybrid_greeting_node(st)
      [] node = "ai_processing"      -> _ai_processing_node(st)
      [] node = "emergency_response" -> _emergency_response_node(st)
      [] node = "completion"         -> _completion_node(st)

HybridNextNode(node, st) ==
    CASE node = "greeting"           -> "ai_processing"
      [] node = "ai_processing"      -> _route_after_ai(st)
      [] node = "emergency_response" -> _route_after_emergency(st)
      [] node = "completion"         -> "END"

RECURSIVE RunHybridGraph(_, _, _, _)
RunHybridNext(e, node, st1, steps) ==
    RunHybridGraph(e, HybridNextNode(node, st1), st1, steps + 1)

RunHybridGraph(e, node, st, steps) ==
    IF node = "END"
    THEN [state |-> st, raised |-> FALSE]
    ELSE IF steps >= recursion_limit \/ (node = "ai_processing" /\ AiNodeRaises(e))
         THEN [state |-> st, raised |-> TRUE]
         ELSE RunHybridNext(e, node, HybridNodeResult(node, st), steps)

\* The nodes one run of the graph executes, in order, each with the
\* dictionary it was handed and the one it returned.
RECURSIVE HybridVisits(_, _, _, _)
HybridVisitsNext(e, node, st, st1, steps) ==
    <<[node |-> node, before |-> st, after |-> st1]>>
        \o HybridVisits(e, HybridNextNode(node, st1), st1, steps + 1)

HybridVisits(e, node, st, steps) ==
    IF node = "END"
    THEN <<>>
    ELSE IF steps >= recursion_limit \/ (node = "ai_processing" /\ AiNodeRaises(e))
         THEN <<>>
         ELSE HybridVisitsNext(e, node, st, HybridNodeResult(node, st), steps)

StartOutcome(run) ==
    IF run.raised
    THEN AppendMsg([run.state EXCEPT !.current_step = "greeting_complete"],
                   Msg("assistant", "start_fallback", <<>>))
    ELSE run.state

hybrid_start_conversation(e) ==
    StartOutcome(RunHybridGraph(e, "greeting", HybridInitialState, 0))

fallback_urgent_keywords ==
    { <<"don">>, <<"song", "geum">>, <<"sa", "gi">>, <<"geub", "hae">>, <<"do", "xwa">> }

_generate_fallback_response(user_input) ==
    IF ContainsAny(user_input, fallback_urgent_keywords)
    THEN URGENT_FALLBACK_RESPONSE
    ELSE GENERAL_FALLBACK_RESPONSE

hybrid_continue_conversation(e, st, user_input) ==
    IF IsBlank(user_input)
    THEN AppendMsg(st, PLEASE_REPEAT)
    ELSE RunOutcome(RunHybridGraph(e, "greeting", AddUserTurn(st, user_input), 0),
                    Msg("assistant", "fallback_response",
                        _generate_fallback_response(user_input)))

(***************************************************************************)
(* VoicePhishingGraph (core/graph_backup.py): process_user_input and its   *)
(* handlers.  The nodes of this graph are methods of                       *)
(* core.nodes.VoicePhishingNodes, a module the repository does not ship,   *)
(* so a run of the graph is an arbitrary choice: it raises, or it replies  *)
(* and leaves the session at the stage of one of the terminal nodes.       *)
(***************************************************************************)
BackupInitialState ==
    [ messages           |-> <<>>,
      current_step       |-> "greeting",
      urgency_level      |-> 5,
      conversation_turns |-> 0 ]

BackupRunOutcomes == {"raised", "follow_up", "escalation"}

\* "죄송합니다. 메시지가 전달되지 않았습니다. 다시 말씀해 주시겠어요?"
_handle_empty_input(st) ==
    AppendMsg(st, Msg("assistant", "please_repeat", <<>>))

\* "... 전기통신금융사기 통합신고센터: 1566-1188 ... 경찰 신고: 112 ..."
_handle_processing_error(st) ==
    [AppendMsg(st, Msg("assistant", "error_response_1566_112", <<>>))
        EXCEPT !.current_step = "error_occurred"]

_add_user_message(st, user_input) ==
    [AppendMsg(st, UserMsg(Strip(user_input))) EXCEPT !.conversation_turns = @ + 1]

_validate_final_state(st) ==
    [st EXCEPT !.urgency_level = IF @ > 10 THEN 10 ELSE IF @ < 1 THEN 1 ELSE @]

BackupGraphRun(st, outcome) ==
    [AppendMsg(st, Msg("assistant", "node_reply", <<>>)) EXCEPT !.current_step = outcome]

process_user_input(st, user_input, outcome) ==
    IF IsBlank(user_input)
    THEN _handle_empty_input(st)
    ELSE LET st1 == _add_user_message(st, user_input)
         IN  IF outcome = "raised"
             THEN _handle_processing_error(st1)
             ELSE _validate_final_state(BackupGraphRun(st1, outcome))

start_new_conversation(outcome) ==
    IF outcome = "raised"
    THEN _handle_processing_error(BackupInitialState)
    ELSE BackupGraphRun(BackupInitialState, outcome)

(***************************************************************************)
(* EnhancedInfoExtractor (services/enhanced_info_extractor.py).  An        *)
(* extraction result is the value the collection node stores ('answer',    *)
(* 'formatted' or 'normalized'), the confidence in tenths and, for an      *)
(* amount, its decimal digits (<<>> for None).  Amounts are kept as digit  *)
(* sequences: every unit multiplier is a power of ten, so multiplying is   *)
(* shifting the decimal point.                                             *)
(***************************************************************************)
Extraction(value, confidence, amount) ==
    [value |-> value, confidence |-> confidence, amount |-> amount]

yes_patterns ==
    << <<"ne">>, <<"xye">>, <<"maj", "xa">>, <<"maj", "xa", "xyo">>,
       <<"maj", "seub", "ni", "da">>, <<"geu", "rae", "xyo">>, <<"xeung">>,
       <<"xeong">>, <<"xung">>, <<"maj">>, <<"mas", "xa">>, <<"mas">>,
       <<"geu", "reom">>, <<"dang", "xyeon">>, <<"y", "e", "s">>,
       <<"haess", "xeo">>, <<"haess", "seub", "ni", "da">>,
       <<"sin", "cheong", "haess">>, <<"haess", "da">>, <<"xwan", "ryo">>,
       <<"ma", "chyeoss">> >>

no_patterns ==
    << <<"xa", "ni">>, <<"xa", "ni", "xyo">>, <<"xa", "nyo">>,
       <<"xan", "haess">>, <<"mos", "haess">>, <<"xan", "ham">>,
       <<"xan", "hae">>, <<"xa", "jig">>, <<"n", "o">>, <<"ttaeng">>,
       <<"xa", "nin">>, <<"xa", "nim">>, <<"mo", "reum">>, <<"mol", "ra">> >>

AnyIn(ws, t) == \E i \in 1..Len(ws) : Contains(t, ws[i])

YesNoOf(t) ==
    IF AnyIn(yes_patterns, t) THEN Extraction(YES, 9, <<>>)
    ELSE IF AnyIn(no_patterns, t) THEN Extraction(NO, 9, <<>>)
    ELSE IF Len(t) <= 3 /\ ContainsAny(t, {<<"xye">>, <<"ne">>, <<"xeung">>})
         THEN Extraction(YES, 6, <<>>)
         ELSE Extraction(UNCONFIRMED, 0, <<>>)

extract_yes_no(text) == YesNoOf(Lower(Strip(text)))

\* unit words in the order of the loop (longest first, ties in dictionary
\* order), each with the exponent of its multiplier
amount_units ==
    << [unit |-> <<"sib", "man", "xwon">>,   exponent |-> 5],
       [unit |-> <<"baeg", "man", "xwon">>,  exponent |-> 6],
       [unit |-> <<"cheon", "man", "xwon">>, exponent |-> 7],
       [unit |-> <<"cheon", "xwon">>,        exponent |-> 3],
       [unit |-> <<"man", "xwon">>,          exponent |-> 4],
       [unit |-> <<"xeog", "xwon">>,         exponent |-> 8],
       [unit |-> <<"sib", "xeog">>,          exponent |-> 9],
       [unit |-> <<"baeg", "xeog">>,         exponent |-> 10],
       [unit |-> <<"cheon", "xeog">>,        exponent |-> 11],
       [unit |-> <<"xwon">>,                 exponent |-> 0],
       [unit |-> <<"xeog">>,                 exponent |-> 8],
       [unit |-> <<"jo">>,                   exponent |-> 12] >>

Zeros(k) == [i \in 1..k |-> "0"]

RECURSIVE StripZeros(_)
StripZeros(ds) ==
    IF Len(ds) > 1 /\ Head(ds) = "0" THEN StripZeros(Tail(ds)) ELSE ds

\* int(float(int_ds . frac_ds) * 10^exponent)
ScaleDigits(int_ds, frac_ds, exponent) ==
    StripZeros(int_ds \o SubSeq(frac_ds \o Zeros(exponent), 1, exponent))

\* the end of \d+ and of \d+(?:\.\d+)? started at i
IntEnd(t, i) == RunEnd(t, i, Digits)

HasFrac(t, j) == j + 2 <= Len(t) /\ t[j + 1] = "." /\ t[j + 2] \in Digits

FracEnd(t, j) == IF HasFrac(t, j) THEN RunEnd(t, j + 2, Digits) ELSE j

FracDigits(t, j) == IF HasFrac(t, j) THEN SubSeq(t, j + 2, FracEnd(t, j)) ELSE <<>>

UnitAt(t, p, unit) ==
    p + Len(unit) - 1 <= Len(t) /\ SubSeq(t, p, p + Len(unit) - 1) = unit

\* (\d+(?:\.\d+)?)\s*unit matches at i
UnitMatchAt(t, i, unit) ==
    /\ t[i] \in Digits
    /\ UnitAt(t, RunEnd(t, FracEnd(t, IntEnd(t, i)), Whitespace) + 1, unit)

UnitMatches(t, unit) == \E i \in 1..Len(t) : UnitMatchAt(t, i, unit)

FirstUnitMatch(t, unit) ==
    CHOOSE i \in 1..Len(t) :
        UnitMatchAt(t, i, unit) /\ \A j \in 1..(i - 1) : ~UnitMatchAt(t, j, unit)

WON == <<"xwon">>

\* " (추정)"
ESTIMATED == <<" ", "(", "chu", "jeong", ")">>

UnitAmount(total) == Extraction(GroupThousands(total) \o WON, 9, total)

UnitAmountAt(t, i, exponent) ==
    UnitAmount(ScaleDigits(SubSeq(t, i, IntEnd(t, i)),
                           FracDigits(t, IntEnd(t, i)), exponent))

\* the end of (?:,\d{3})* started after index j
RECURSIVE CommaGroupsEnd(_, _)
CommaGroupsEnd(t, j) ==
    IF /\ j + 4 <= Len(t)
       /\ t[j + 1] = ","
       /\ \A k \in 2..4 : t[j + k] \in Digits
    THEN CommaGroupsEnd(t, j + 4)
    ELSE j

FirstDigit(t) ==
    CHOOSE i \in 1..Len(t) : t[i] \in Digits /\ \A j \in 1..(i - 1) : t[j] \notin Digits

\* the size classes of the bare number: int_ds and frac_ds are its integer
\* and fractional digits
EstimatedAmount(int_ds, frac_ds) ==
    IF Len(StripZeros(int_ds)) >= 7
    THEN [amount |-> StripZeros(int_ds), confidence |-> 7]
    ELSE IF Len(StripZeros(int_ds)) >= 4
    THEN [amount |-> ScaleDigits(int_ds, frac_ds, 4), confidence |-> 6]
    ELSE IF Len(StripZeros(int_ds)) >= 2
    THEN [amount |-> ScaleDigits(int_ds, frac_ds, 8), confidence |-> 8]
    ELSE [amount |-> StripZeros(int_ds), confidence |-> 3]

Estimate(e) ==
    Extraction(GroupThousands(e.amount) \o WON \o ESTIMATED, e.confidence, e.amount)

BareNumberAt(t, i, j) ==
    Estimate(EstimatedAmount(RemoveCommas(SubSeq(t, i, j)), FracDigits(t, j)))

hangul_numbers ==
    { "xil", "xi", "sam", "sa", "xo", "xyug", "chil", "pal", "gu", "sib",
      "baeg", "cheon", "man", "xeog", "jo" }

\* None is <<>>
_parse_hangul_number(t) ==
    IF \E i \in 1..Len(t) : t[i] \in hangul_numbers
    THEN IF Contains(t, <<"sib", "xo", "xeog">>)
         THEN <<"1", "5", "0", "0", "0", "0", "0", "0", "0", "0">>
         ELSE IF Contains(t, <<"xi", "sib", "xeog">>)
              THEN <<"2", "0", "0", "0", "0", "0", "0", "0", "0", "0">>
              ELSE <<>>
    ELSE <<>>

RECURSIVE AmountFromUnits(_, _)
AmountFromUnits(t, k) ==
    IF k > Len(amount_units)
    THEN IF \E i \in 1..Len(t) : t[i] \in Digits
         THEN BareNumberAt(t, FirstDigit(t),
                           CommaGroupsEnd(t, IntEnd(t, FirstDigit(t))))
         ELSE IF _parse_hangul_number(t) # <<>>
              THEN Extraction(GroupThousands(_parse_hangul_number(t)) \o WON, 8,
                              _parse_hangul_number(t))
              ELSE Extraction(UNCONFIRMED, 0, <<>>)
    ELSE IF UnitMatches(t, amount_units[k].unit)
         THEN UnitAmountAt(t, FirstUnitMatch(t, amount_units[k].unit),
                           amount_units[k].exponent)
         ELSE AmountFromUnits(t, k + 1)

extract_amount(text) == AmountFromUnits(Lower(Strip(text)), 1)

BUN == <<"bun">>

JEON == <<"jeon">>

\* (\d+)<unit>\s*전 matches at i
AgoMatchAt(t, i, unit) ==
    /\ t[i] \in Digits
    /\ UnitAt(t, IntEnd(t, i) + 1, unit)
    /\ UnitAt(t, RunEnd(t, IntEnd(t, i) + Len(unit), Whitespace) + 1, JEON)

AgoMatchEnd(t, i, unit) == RunEnd(t, IntEnd(t, i) + Len(unit), Whitespace) + 1

\* re.sub(r'(\d+)<unit>\s*전', r'\1<unit> 전', t) from index i on
RECURSIVE AgoSub(_, _, _)
AgoSub(t, i, unit) ==
    IF i > Len(t)
    THEN <<>>
    ELSE IF AgoMatchAt(t, i, unit)
         THEN SubSeq(t, i, IntEnd(t, i)) \o unit \o <<" ">> \o JEON
              \o AgoSub(t, AgoMatchEnd(t, i, unit) + 1, unit)
         ELSE <<t[i]>> \o AgoSub(t, i + 1, unit)

\* (\d+)월\s*(\d+)일 matches at i
DateDayStart(t, i) == RunEnd(t, IntEnd(t, i) + 1, Whitespace) + 1

DateMatchAt(t, i) ==
    /\ t[i] \in Digits
    /\ UnitAt(t, IntEnd(t, i) + 1, <<"xwol">>)
    /\ DateDayStart(t, i) <= Len(t)
    /\ t[DateDayStart(t, i)] \in Digits
    /\ UnitAt(t, IntEnd(t, DateDayStart(t, i)) + 1, <<"xil">>)

RECURSIVE DateSub(_, _)
DateSub(t, i) ==
    IF i > Len(t)
    THEN <<>>
    ELSE IF DateMatchAt(t, i)
         THEN SubSeq(t, i, IntEnd(t, i)) \o <<"xwol", " ">>
              \o SubSeq(t, DateDayStart(t, i), IntEnd(t, DateDayStart(t, i)))
              \o <<"xil">>
              \o DateSub(t, IntEnd(t, DateDayStart(t, i)) + 2)
         ELSE <<t[i]>> \o DateSub(t, i + 1)

\* the fallback for a phrase with '분' and '전' and no pattern match
CleanedTime(t, cleaned) ==
    IF cleaned # t THEN Extraction(cleaned, 7, <<>>) ELSE Extraction(t, 0, <<>>)

TimeOf(t) ==
    IF \E i \in 1..Len(t) : AgoMatchAt(t, i, BUN)
    THEN Extraction(AgoSub(t, 1, BUN), 9, <<>>)
    ELSE IF \E i \in 1..Len(t) : AgoMatchAt(t, i, <<"si", "gan">>)
    THEN Extraction(AgoSub(t, 1, <<"si", "gan">>), 9, <<>>)
    ELSE IF \E i \in 1..Len(t) : AgoMatchAt(t, i, <<"xil">>)
    THEN Extraction(AgoSub(t, 1, <<"xil">>), 9, <<>>)
    ELSE IF Contains(t, <<"xo", "neul">>) THEN Extraction(<<"xo", "neul">>, 9, <<>>)
    ELSE IF Contains(t, <<"xeo", "je">>) THEN Extraction(<<"xeo", "je">>, 9, <<>>)
    ELSE IF Contains(t, <<"geu", "je">>) THEN Extraction(<<"geu", "je">>, 9, <<>>)
    ELSE IF \E i \in 1..Len(t) : DateMatchAt(t, i)
    THEN Extraction(DateSub(t, 1), 9, <<>>)
    ELSE IF Contains(t, BUN) /\ Contains(t, JEON)
    THEN CleanedTime(t, Strip(StripTrailingFiller(t)))
    ELSE Extraction(t, 0, <<>>)

extract_time(text) == TimeOf(Strip(text))

extract_all_info(text, question_type) ==
    CASE question_type = "amount" -> extract_amount(text)
      [] question_type = "time"   -> extract_time(text)
      [] question_type = "yes_no" -> extract_yes_no(text)
      [] OTHER -> Extraction(Strip(text), 5, <<>>)

(***************************************************************************)
(* ImprovedInfoCollectionNode (core/improved_graph_nodes.py).  It works on *)
(* the session dictionary and keeps, per slot, a value awaiting            *)
(* confirmation (temp), whether a confirmation is pending and a retry      *)
(* count.  reply is the string the turn returns.                           *)
(***************************************************************************)
question_types ==
    [ victim             |-> "yes_no",
      loss_amount        |-> "amount",
      time_context       |-> "time",
      account_frozen     |-> "yes_no",
      reported_to_police |-> "yes_no" ]

\* "확인 필요"
NEEDS_CHECK == <<"hwag", "xin", " ", "pil", "xyo">>

HIGH_CONFIDENCE == 8

MEDIUM_CONFIDENCE == 5

MAX_RETRIES == 2

\* amount > 10000000 for the decimal digits of amount
LARGE_AMOUNT == <<"1", "0", "0", "0", "0", "0", "0", "0">>

ExceedsLargeAmount(ds) ==
    \/ Len(ds) > Len(LARGE_AMOUNT)
    \/ Len(ds) = Len(LARGE_AMOUNT) /\ ds # LARGE_AMOUNT

ImprovedInitialState ==
    [ current_question_index   |-> 0,
      info_collection_complete |-> FALSE,
      urgency_level            |-> 5,
      is_emergency             |-> FALSE,
      victim                   |-> ABSENT,
      loss_amount              |-> ABSENT,
      time_context             |-> ABSENT,
      account_frozen           |-> ABSENT,
      reported_to_police       |-> ABSENT,
      temp                     |-> [f \in SlotFields |-> ABSENT],
      confirmation_pending     |-> [f \in SlotFields |-> FALSE],
      retry_count              |-> [f \in SlotFields |-> 0],
      reply                    |-> [kind |-> "none", content |-> <<>>],
      reprompts                |-> [f \in SlotFields |-> 0] ]

\* reprompts records, for the properties, how many times the session has
\* answered with the retry message of a slot: the node keeps no such count.
CountReprompt(before, after) ==
    IF /\ after.reply.kind = "retry_message"
       /\ before.current_question_index < Len(question_flow)
    THEN [after EXCEPT
             !.reprompts[question_flow[before.current_question_index + 1].field] = @ + 1]
    ELSE after

TurnReply(st, kind, content) ==
    [st EXCEPT !.reply = [kind |-> kind, content |-> content]]

_handle_high_confidence(st, question_key, result) ==
    IF /\ question_key = "loss_amount"
       /\ result.amount # <<>>
       /\ ExceedsLargeAmount(result.amount)
    THEN [st EXCEPT ![question_key] = result.value,
                    !.urgency_level = 9,
                    !.is_emergency = TRUE]
    ELSE [st EXCEPT ![question_key] = result.value]

_handle_medium_confidence(st, question_key, result) ==
    [st EXCEPT !.temp[question_key] = result.value]

\* _handle_low_confidence giving the slot up at the first unusable answer
_handle_low_confidence_giving_up_early(st, question_key) ==
    [st EXCEPT ![question_key] = NEEDS_CHECK]

_handle_low_confidence(st, question_key) ==
    IF st.retry_count[question_key] < MAX_RETRIES
    THEN [st EXCEPT !.retry_count[question_key] = @ + 1]
    ELSE [st EXCEPT ![question_key] = NEEDS_CHECK]

\* the state the handlers leave, and the flags of the result they return
collect_info_enhanced(st, question_key, result) ==
    IF result.confidence >= HIGH_CONFIDENCE
    THEN _handle_high_confidence(st, question_key, result)
    ELSE IF result.confidence >= MEDIUM_CONFIDENCE
         THEN _handle_medium_confidence(st, question_key, result)
         ELSE _handle_low_confidence(st, question_key)

CollectionSuccess(st, question_key, result) ==
    \/ result.confidence >= HIGH_CONFIDENCE
    \/ /\ result.confidence < MEDIUM_CONFIDENCE
       /\ st.retry_count[question_key] >= MAX_RETRIES

ConfirmationNeeded(result) ==
    result.confidence >= MEDIUM_CONFIDENCE /\ result.confidence < HIGH_CONFIDENCE

\* the success branch of the turn, on the state the handler left
NextQuestion(st, question_key, current_index) ==
    IF current_index + 1 < Len(question_flow)
    THEN TurnReply([st EXCEPT !.current_question_index = current_index + 1],
               "ask_" \o question_flow[current_index + 2].field, st[question_key])
    ELSE TurnReply([st EXCEPT !.current_question_index = current_index + 1,
                          !.info_collection_complete = TRUE],
               "collection_done", st[question_key])

CollectTurn(before, st, question_key, current_index, result) ==
    IF CollectionSuccess(before, question_key, result)
    THEN NextQuestion(st, question_key, current_index)
    ELSE IF ConfirmationNeeded(result)
         THEN TurnReply([st EXCEPT !.confirmation_pending[question_key] = TRUE],
                    "confirmation_question", result.value)
         ELSE TurnReply(st, "retry_message", <<>>)

\* The handler as it would be if a rejected confirmation restarted the
\* collection.
_handle_confirmation_response_restarting(st, question_key, user_input) ==
    IF extract_yes_no(user_input).value = YES
    THEN TurnReply([st EXCEPT ![question_key] = st.temp[question_key],
                              !.confirmation_pending[question_key] = FALSE,
                              !.current_question_index = @ + 1],
                   "confirmed", st.temp[question_key])
    ELSE TurnReply([st EXCEPT !.confirmation_pending[question_key] = FALSE,
                              !.current_question_index = 0],
                   "retry_message", <<>>)

_handle_confirmation_response(st, question_key, user_input) ==
    IF extract_yes_no(user_input).value = YES
    THEN TurnReply([st EXCEPT ![question_key] = st.temp[question_key],
                          !.confirmation_pending[question_key] = FALSE,
                          !.current_question_index = @ + 1],
               "confirmed", st.temp[question_key])
    ELSE TurnReply([st EXCEPT !.confirmation_pending[question_key] = FALSE],
               "retry_message", <<>>)

_finalize_collection(st) ==
    TurnReply([st EXCEPT !.info_collection_complete = TRUE], "collection_summary", <<>>)

TurnOnQuestion(st, question_key, current_index, user_input) ==
    IF st.confirmation_pending[question_key]
    THEN _handle_confirmation_response(st, question_key, user_input)
    ELSE CollectTurn(st,
                     collect_info_enhanced(st, question_key,
                         extract_all_info(user_input, question_types[question_key])),
                     question_key, current_index,
                     extract_all_info(user_input, question_types[question_key]))

process_conversation_turn(st, current_index, user_input) ==
    IF current_index >= Len(question_flow)
    THEN _finalize_collection(st)
    ELSE TurnOnQuestion(st, question_flow[current_index + 1].field,
                        current_index, user_input)

(***************************************************************************)
(* HighPerformanceConversationManager (services/conversation_manager.py):  *)
(* the turn processing of _process_user_input_optimized.  The manager      *)
(* awaits langgraph.continue_conversation under asyncio.wait_for; the      *)
(* awaited coroutine either returns, or is suspended on a collaborator     *)
(* that has not answered while the clock runs.  Time is counted in whole   *)
(* seconds.                                                                *)
(***************************************************************************)
GEMINI_TIMEOUT == 5

TURN_TIMEOUT == 10

MANAGER_MAX_TURNS == 20

\* settings.SESSION_TIMEOUT, in seconds
SESSION_TIMEOUT == 900

Manager ==
    [ current_langgraph_state |-> create_initial_recovery_state,
      is_running      |-> FALSE,
      is_processing   |-> FALSE,
      conversation_state |-> "idle",
      total_turns     |-> 0,
      awaited         |-> "none",
      user_input      |-> <<>>,
      elapsed         |-> 0,
      session_age     |-> 0 ]

\* session_age is datetime.now() - conversation_start_time, in seconds
_should_end_conversation(mgr) ==
    \/ mgr.current_langgraph_state.current_step = "consultation_complete"
    \/ mgr.total_turns >= MANAGER_MAX_TURNS
    \/ mgr.session_age > SESSION_TIMEOUT

\* The rest of the try block once the awaited coroutine has returned st.
EndCheck(m1) ==
    IF _should_end_conversation(m1)
    THEN [m1 EXCEPT !.is_running = FALSE]
    ELSE [m1 EXCEPT !.conversation_state = "listening"]

TurnReturned(mgr, st) ==
    EndCheck([mgr EXCEPT !.current_langgraph_state = st,
                         !.total_turns = @ + 1,
                         !.conversation_state = "processing",
                         !.awaited = "none",
                         !.is_processing = FALSE])

timeout_words ==
    { <<"don">>, <<"song", "geum">>, <<"bo", "naess">>, <<"gye", "jwa">>,
      <<"xi", "che">>, <<"gye", "jwa", "xi", "che">> }

_handle_timeout_response(mgr) ==
    [mgr EXCEPT !.current_langgraph_state =
                    AppendMsg(@, Msg("assistant",
                                     IF ContainsAny(Lower(mgr.user_input), timeout_words)
                                     THEN "timeout_emergency"
                                     ELSE "timeout_general",
                                     <<>>)),
                !.awaited = "none",
                !.is_processing = FALSE]

(***************************************************************************)
(* HighPerformanceConversationManager: the main loop, the STT thread that  *)
(* feeds stt_queue and the silence detection.  The loop is one coroutine;  *)
(* loop_pc is the statement it is at (an await that has not returned yet,  *)
(* or the top of an iteration) and stt_pc the statement the transcript     *)
(* callback is at on the STT thread.  now is the clock in whole seconds; a *)
(* time stamp that is None is NEVER.  history records, for the properties, *)
(* what the program itself does not store: how many transcripts were       *)
(* accepted and when, which of them the loop started and finished, and     *)
(* when the assistant last finished speaking.                              *)
(***************************************************************************)
STT_QUEUE_MAXSIZE == 10

SILENCE_TIMEOUT == 5

NEVER == -1

Transcript(seq, text) == [seq |-> seq, text |-> text]

ConversationLoop(is_monitoring, conversation_start_time) ==
    [ current_langgraph_state |-> start_conversation,
      is_running        |-> TRUE,
      is_processing     |-> FALSE,
      total_turns       |-> 0,
      conversation_start_time |-> conversation_start_time,
      stt_queue         |-> <<>>,
      silence_detection |-> [ last_speech_time     |-> NEVER,
                              last_audio_activity  |-> NEVER,
                              is_first_interaction |-> TRUE ],
      is_monitoring      |-> is_monitoring,
      loop_pc            |-> "poll",
      user_input         |-> Transcript(0, <<>>),
      awaited_since      |-> 0,
      timed_out          |-> FALSE,
      stt_pc             |-> "idle",
      stt_text           |-> Transcript(0, <<>>),
      now                |-> 0,
      history            |-> [ accepted       |-> 0,
                               last_accepted  |-> NEVER,
                               dropped        |-> <<>>,
                               started        |-> <<>>,
                               finished       |-> 0,
                               last_reply_end |-> NEVER,
                               follow_ups     |-> 0 ] ]

\* fast_transcript_handler without the test of stt_queue.full()
fast_transcript_handler_unchecked(m, text) ==
    IF Strip(text) # <<>> /\ Len(Strip(text)) > 1
    THEN [m EXCEPT !.stt_text = Transcript(m.history.accepted + 1, Strip(text)),
                   !.stt_pc = "put_nowait",
                   !.history.accepted = @ + 1,
                   !.history.last_accepted = m.now]
    ELSE m

\* fast_transcript_handler, for a final transcript, up to the test of
\* stt_queue.full()
fast_transcript_handler(m, text) ==
    IF Strip(text) # <<>> /\ Len(Strip(text)) > 1
    THEN [m EXCEPT !.stt_text = Transcript(m.history.accepted + 1, Strip(text)),
                   !.stt_pc = IF Len(m.stt_queue) >= STT_QUEUE_MAXSIZE
                              THEN "get_nowait"
                              ELSE "put_nowait",
                   !.history.accepted = @ + 1,
                   !.history.last_accepted = m.now]
    ELSE m

\* stt_queue.get_nowait() of the callback; queue.Empty is passed over
DropOldest(m) ==
    IF m.stt_queue # <<>>
    THEN [m EXCEPT !.stt_queue = Tail(@),
                   !.history.dropped = Append(@, Head(m.stt_queue).seq),
                   !.stt_pc = "put_nowait"]
    ELSE [m EXCEPT !.stt_pc = "put_nowait"]

\* stt_queue.put_nowait(text); queue.Full is logged and the text is lost
PutTranscript(m) ==
    IF Len(m.stt_queue) < STT_QUEUE_MAXSIZE
    THEN [m EXCEPT !.stt_queue = Append(@, m.stt_text),
                   !.stt_text = Transcript(0, <<>>),
                   !.stt_pc = "idle"]
    ELSE [m EXCEPT !.history.dropped = Append(@, m.stt_text.seq),
                   !.stt_text = Transcript(0, <<>>),
                   !.stt_pc = "idle"]

\* the top of an iteration taking the newest transcript of the queue
LoopTopTakingNewest(m) ==
    IF m.stt_queue = <<>>
    THEN [m EXCEPT !.loop_pc = "check"]
    ELSE IF m.is_processing
         THEN [m EXCEPT !.stt_queue = SubSeq(@, 1, Len(@) - 1),
                        !.history.dropped = Append(@, m.stt_queue[Len(m.stt_queue)].seq),
                        !.loop_pc = "check"]
         ELSE [m EXCEPT !.stt_queue = SubSeq(@, 1, Len(@) - 1),
                        !.user_input = m.stt_queue[Len(m.stt_queue)],
                        !.silence_detection.last_speech_time = m.now,
                        !.silence_detection.is_first_interaction = FALSE,
                        !.is_processing = TRUE,
                        !.awaited_since = m.now,
                        !.timed_out = FALSE,
                        !.history.started = Append(@, m.stt_queue[Len(m.stt_queue)].seq),
                        !.loop_pc = "processing"]

\* the top of an iteration of _main_conversation_loop, up to the await of
\* _process_user_input_optimized: _get_stt_result_fast and, for an utterance,
\* the start of its processing
LoopTop(m) ==
    IF m.stt_queue = <<>>
    THEN [m EXCEPT !.loop_pc = "check"]
    ELSE IF m.is_processing
         THEN [m EXCEPT !.stt_queue = Tail(@),
                        !.history.dropped = Append(@, Head(m.stt_queue).seq),
                        !.loop_pc = "check"]
         ELSE [m EXCEPT !.stt_queue = Tail(@),
                        !.user_input = Head(m.stt_queue),
                        !.silence_detection.last_speech_time = m.now,
                        !.silence_detection.is_first_interaction = FALSE,
                        !.is_processing = TRUE,
                        !.awaited_since = m.now,
                        !.timed_out = FALSE,
                        !.history.started = Append(@, Head(m.stt_queue).seq),
                        !.loop_pc = "processing"]

\* langgraph.continue_conversation returned before wait_for gave up: the
\* reply is spoken next (_handle_ai_response)
TurnAnswered(m) ==
    [m EXCEPT !.current_langgraph_state =
                  continue_conversation(@, m.user_input.text, FALSE, 0),
              !.loop_pc = "speaking"]

\* asyncio.TimeoutError: _handle_timeout_response appends the quick reply
\* and speaks it
TurnTimedOut(m) ==
    [m EXCEPT !.current_langgraph_state =
                  AppendMsg(@, Msg("assistant",
                                   IF ContainsAny(Lower(m.user_input.text), timeout_words)
                                   THEN "timeout_emergency"
                                   ELSE "timeout_general",
                                   <<>>)),
              !.timed_out = TRUE,
              !.loop_pc = "speaking"]

\* the end check without the session timeout
LoopShouldEndWithoutTimeout(m) ==
    \/ m.current_langgraph_state.current_step = "consultation_complete"
    \/ m.total_turns >= MANAGER_MAX_TURNS

LoopShouldEnd(m) ==
    \/ m.current_langgraph_state.current_step = "consultation_complete"
    \/ m.total_turns >= MANAGER_MAX_TURNS
    \/ m.now - m.conversation_start_time > SESSION_TIMEOUT

\* the reply has been played: the rest of _process_user_input_optimized
\* (turn count, stop_conversation when the consultation is complete,
\* finally)
Counted(m) ==
    IF m.timed_out THEN m ELSE [m EXCEPT !.total_turns = @ + 1]

\* _process_user_input_optimized as it would be without the finally clause
\* on its way out
FinishedStillProcessing(m) ==
    [m EXCEPT !.is_running = IF ~m.timed_out /\ LoopShouldEnd(m) THEN FALSE ELSE @,
              !.user_input = Transcript(0, <<>>),
              !.awaited_since = 0,
              !.timed_out = FALSE,
              !.history.finished = @ + 1,
              !.history.last_reply_end = m.now,
              !.loop_pc = "check"]

Finished(m) ==
    [m EXCEPT !.is_running = IF ~m.timed_out /\ LoopShouldEnd(m) THEN FALSE ELSE @,
              !.is_processing = FALSE,
              !.user_input = Transcript(0, <<>>),
              !.awaited_since = 0,
              !.timed_out = FALSE,
              !.history.finished = @ + 1,
              !.history.last_reply_end = m.now,
              !.loop_pc = "check"]

ReplySpoken(m) == Finished(Counted(m))

\* an exception in the try body after the reply has been fetched:
\* _handle_error speaks the error message, the turn is not counted, the end
\* of the consultation is not looked at, and finally runs
TurnRaised(m) == [Finished(m) EXCEPT !.is_running = m.is_running]

\* now - stamp >= SILENCE_TIMEOUT, with float('inf') for a stamp that is None
SilentSince(m, stamp) == stamp = NEVER \/ m.now - stamp >= SILENCE_TIMEOUT

\* min(speech_silence_duration, audio_silence_duration) >= timeout
_should_handle_silence(m) ==
    /\ ~m.silence_detection.is_first_interaction
    /\ ~m.is_processing
    /\ SilentSince(m, m.silence_detection.last_speech_time)
    /\ SilentSince(m, m.silence_detection.last_audio_activity)

FollowUpBucket(urgency) ==
    IF urgency >= 8 THEN "high" ELSE IF urgency >= 6 THEN "medium" ELSE "low"

\* the bucket of questions and the index into it
_generate_follow_up_question(m) ==
    Msg("assistant",
        "follow_up_" \o FollowUpBucket(m.current_langgraph_state.urgency_level),
        <<DigitChar(Min(m.total_turns, 2))>>)

\* _send_follow_up_question putting the question in the place of the last
\* message instead of after it
_send_follow_up_question_overwriting(m, question) ==
    [m EXCEPT !.current_langgraph_state.messages =
                  Append(SubSeq(@, 1, Len(@) - 1), question),
              !.loop_pc = "follow_up"]

_send_follow_up_question(m, question) ==
    [m EXCEPT !.current_langgraph_state = AppendMsg(@, question),
              !.loop_pc = "follow_up"]

\* _handle_silence_timeout counting the follow-up as a turn
_handle_silence_timeout_counting(m) ==
    _send_follow_up_question(
        [m EXCEPT !.silence_detection.last_speech_time = m.now,
                  !.silence_detection.last_audio_activity = m.now,
                  !.history.follow_ups = @ + 1,
                  !.total_turns = @ + 1],
        _generate_follow_up_question(m))

_handle_silence_timeout(m) ==
    _send_follow_up_question(
        [m EXCEPT !.silence_detection.last_speech_time = m.now,
                  !.silence_detection.last_audio_activity = m.now,
                  !.history.follow_ups = @ + 1],
        _generate_follow_up_question(m))

\* the end of an iteration: the loop breaks, and start_conversation's
\* finally runs cleanup, or the loop sleeps and goes round again
LoopBottom(m) ==
    IF LoopShouldEnd(m) \/ ~m.is_running
    THEN [m EXCEPT !.is_running = FALSE,
                   !.is_processing = FALSE,
                   !.stt_queue = <<>>,
                   !.history.dropped = @ \o [i \in 1..Len(m.stt_queue) |-> m.stt_queue[i].seq],
                   !.loop_pc = "ended"]
    ELSE [m EXCEPT !.loop_pc = "poll"]

\* the periodic silence check of an iteration; due says whether
\* silence_check_interval has passed since the last check
SilenceCheck(m, due) ==
    IF due
    THEN IF _should_handle_silence(m)
         THEN _handle_silence_timeout(m)
         ELSE LoopBottom(m)
    ELSE LoopBottom(m)

\* the follow-up question has been played
FollowUpSpoken(m) ==
    LoopBottom([m EXCEPT !.history.last_reply_end = m.now])

\* audio_monitor_worker noting what it heard in the session as well
AudioHeardWritingSession(m) ==
    [m EXCEPT !.silence_detection.last_audio_activity = m.now,
              !.current_langgraph_state.conversation_turns = @ + 1]

\* audio_monitor_worker hears a level above silence_threshold
AudioHeard(m) == [m EXCEPT !.silence_detection.last_audio_activity = m.now]

(***************************************************************************)
(* VoiceFriendlyTTSService (services/tts_service.py) as it is called by    *)
(* HighPerformanceConversationManager._speak_response_optimized.  Time is  *)
(* counted in half seconds.  The client call runs in a worker thread under *)
(* asyncio.wait_for; pc is where the speaking coroutine is suspended.      *)
(* client_calls and delivered record, for the properties, how many times   *)
(* the client was called for the text being spoken and what each call of   *)
(* _speak_response_optimized handed to the audio output.                   *)
(***************************************************************************)
\* performance_config['timeout'] = 3.0 s
TTS_TIMEOUT == 6

\* performance_config['emergency_timeout'] = 1.5 s
TTS_EMERGENCY_TIMEOUT == 3

cache_max_size == 10

GINGEUB == <<"gin", "geub">>

GEUBHAE == <<"geub", "hae">>

\* "죄송합니다. 다시 말씀해 주세요."
SPEAK_REPEAT ==
    << "joe", "song", "hab", "ni", "da", ".", " ", "da", "si", " ", "mal",
       "sseum", "hae", " ", "ju", "se", "xyo", "." >>

\* "🚨 지금 신고하세요 "
SPEAK_ALERT ==
    << "U+1F6A8", " ", "ji", "geum", " ", "sin", "go", "ha", "se", "xyo", " " >>

\* "은행에 전화하세요!"
SPEAK_BANK ==
    << "xeun", "haeng", "xe", " ", "jeon", "hwa", "ha", "se", "xyo", "!" >>

SpokenTexts == {SPEAK_REPEAT, SPEAK_ALERT, SPEAK_BANK}

RECURSIVE ReplaceSymbol(_, _, _)
\* str.replace of a one-character symbol
ReplaceSymbol(t, symbol, replacement) ==
    IF t = <<>> THEN <<>>
    ELSE IF Head(t) = symbol
         THEN replacement \o ReplaceSymbol(Tail(t), symbol, replacement)
         ELSE <<Head(t)>> \o ReplaceSymbol(Tail(t), symbol, replacement)

EndsWith(t, c) == t # <<>> /\ t[Len(t)] = c

\* _make_voice_friendly for a text without telephone numbers, addresses,
\* bullets or runs of white space
_make_voice_friendly(text) ==
    Strip(IF \E c \in {".", "xyo", "da"} :
                 EndsWith(ReplaceSymbol(Strip(text), "U+1F6A8", GINGEUB), c)
          THEN ReplaceSymbol(Strip(text), "U+1F6A8", GINGEUB)
          ELSE ReplaceSymbol(Strip(text), "U+1F6A8", GINGEUB) \o <<".">>)

\* the timeout _fast_tts_processing passes to asyncio.wait_for
TtsTimeoutFor(text) ==
    IF Contains(text, GINGEUB) \/ Contains(text, GEUBHAE)
    THEN TTS_EMERGENCY_TIMEOUT
    ELSE TTS_TIMEOUT

TtsService(is_enabled) ==
    [ is_enabled   |-> is_enabled,
      simple_cache |-> <<>>,
      stats        |-> [total_requests |-> 0],
      is_running   |-> TRUE,
      pc           |-> "listening",
      text         |-> <<>>,
      timeout      |-> 0,
      elapsed      |-> 0,
      client_calls |-> 0,
      delivered    |-> <<>> ]

CacheKeys(tts) == {tts.simple_cache[i].key : i \in 1..Len(tts.simple_cache)}

CachedData(tts, key) ==
    tts.simple_cache[CHOOSE i \in 1..Len(tts.simple_cache) :
                         tts.simple_cache[i].key = key].data

\* self.simple_cache[key] = data: an entry of the same key is overwritten in
\* its place, a new key goes to the end
CachePut(cache, key, data) ==
    IF \E i \in 1..Len(cache) : cache[i].key = key
    THEN [i \in 1..Len(cache) |-> IF cache[i].key = key
                                  THEN [key |-> key, data |-> data]
                                  ELSE cache[i]]
    ELSE Append(cache, [key |-> key, data |-> data])

\* _save_to_simple_cache without the size check
_save_to_simple_cache_unbounded(tts, key, data) ==
    [tts EXCEPT !.simple_cache = CachePut(@, key, data)]

\* _save_to_simple_cache: with cache_max_size entries the oldest one,
\* next(iter(self.simple_cache)), is deleted first
_save_to_simple_cache(tts, key, data) ==
    IF Len(tts.simple_cache) >= cache_max_size
    THEN [tts EXCEPT !.simple_cache = CachePut(Tail(@), key, data)]
    ELSE [tts EXCEPT !.simple_cache = CachePut(@, key, data)]

\* the service with the number of different texts it has been asked to
\* speak
NumberedTtsService ==
    [ is_enabled   |-> TRUE,
      simple_cache |-> <<>>,
      stats        |-> [total_requests |-> 0],
      is_running   |-> TRUE,
      pc           |-> "listening",
      text         |-> <<>>,
      timeout      |-> 0,
      elapsed      |-> 0,
      client_calls |-> 0,
      delivered    |-> <<>>,
      texts        |-> 0 ]

\* "안내 <n>번."
CacheText(n) ==
    <<"xan", "nae", " ">>
        \o (IF n >= 10 THEN <<DigitChar(n \div 10)>> ELSE <<>>)
        \o <<DigitChar(n % 10), "beon", ".">>

\* the audio output has consumed the stream: audio is played, an empty
\* chunk is not
Deliver(tts, data) ==
    IF data = "audio"
    THEN [tts EXCEPT !.pc = "playing", !.delivered = Append(@, "audio")]
    ELSE [tts EXCEPT !.pc = "listening", !.delivered = Append(@, "empty")]

\* _speak_response_optimized(text) up to its first suspension:
\* text_to_speech_stream yields b'' when the service is disabled, and
\* _fast_tts_processing returns the cached audio or starts the client call
\* under wait_for
_speak_response_optimized(tts, text) ==
    IF ~tts.is_enabled
    THEN Deliver([tts EXCEPT !.text = text, !.client_calls = 0], "empty")
    ELSE IF _make_voice_friendly(text) \in CacheKeys(tts)
         THEN Deliver([tts EXCEPT !.text = text,
                                  !.client_calls = 0,
                                  !.stats.total_requests = @ + 1],
                      CachedData(tts, _make_voice_friendly(text)))
         ELSE [tts EXCEPT !.text = text,
                          !.stats.total_requests = @ + 1,
                          !.timeout = TtsTimeoutFor(_make_voice_friendly(text)),
                          !.elapsed = 0,
                          !.client_calls = 1,
                          !.pc = "wait_for"]

\* sync_fast_tts returned data (audio, or b'' after an exception of the
\* client) before the timeout: _fast_tts_processing caches and returns it
_fast_tts_processing_returns(tts, data) ==
    Deliver(_save_to_simple_cache([tts EXCEPT !.elapsed = 0, !.timeout = 0],
                                  _make_voice_friendly(tts.text), data),
            data)

\* _fast_tts_processing calling the client once more after a timeout
_fast_tts_processing_retrying(tts) ==
    [tts EXCEPT !.elapsed = 0, !.client_calls = @ + 1]

\* asyncio.TimeoutError in _fast_tts_processing: b'' is returned, nothing is
\* cached and the client is not called again
_fast_tts_processing_times_out(tts) ==
    Deliver([tts EXCEPT !.elapsed = 0, !.timeout = 0], "empty")

\* play_audio_stream has played the audio
PlaybackDone(tts) == [tts EXCEPT !.pc = "listening"]

(***************************************************************************)
(* HybridDecisionEngine (core/hybrid_decision.py): when to hand an         *)
(* utterance to the LLM.  The scores of the source are sums of multiples   *)
(* of 0.1 capped at 1.0; they are kept in tenths, 0..10.                   *)
(***************************************************************************)
\* `for word in words: if word in text: score += step`, as a count of hits
RECURSIVE HitCount(_, _)
HitCount(words, t) ==
    IF words = <<>>
    THEN 0
    ELSE (IF Contains(t, words[1]) THEN 1 ELSE 0) + HitCount(Tail(words), t)

\* str.split(): the maximal runs of characters that are not whitespace
RECURSIVE SplitFrom(_, _, _)
SplitFrom(t, word, acc) ==
    IF t = <<>>
    THEN IF word = <<>> THEN acc ELSE acc \cup {word}
    ELSE IF Head(t) \in Whitespace
         THEN SplitFrom(Tail(t), <<>>,
                        IF word = <<>> THEN acc ELSE acc \cup {word})
         ELSE SplitFrom(Tail(t), Append(word, Head(t)), acc)

\* set(text.split())
Keywords(t) == SplitFrom(t, <<>>, {})

\* last_ai_response = None
NO_RESPONSE == <<>>

contradiction_words ==
    << <<"mal", "go">>, <<"xa", "ni", "ra">>, <<"da", "reun">>,
       <<"tto", " ", "da", "reun">>, <<"chu", "ga", "ro">> >>

\* the tokens whose absence makes a reply to a question a change of subject
answer_words ==
    << <<"ne">>, <<"xye">>, <<"xa", "ni">>, <<"silh", "xeo">> >>

YEBANG ==
    << "xye", "bang" >>

MALGO ==
    << "mal", "go" >>

\* min(score, 1.0)
Capped(score) == Min(score, 10)

_detect_context_mismatch(user_input, last_ai_response) ==
    IF last_ai_response = NO_RESPONSE
    THEN 0
    ELSE Capped(
           3 * HitCount(contradiction_words, Lower(user_input))
           + (IF /\ Contains(last_ai_response, YEBANG)
                 /\ Contains(user_input, YEBANG)
                 /\ Contains(user_input, MALGO)
              THEN 5 ELSE 0)
           + (IF /\ Contains(last_ai_response, <<"?">>)
                 /\ ~AnyIn(answer_words, Lower(user_input))
              THEN 2 ELSE 0))

question_patterns ==
    << <<"mwo", "xye", "xyo">>, <<"mu", "xeos">>, <<"xeo", "tteon">>,
       <<"seol", "myeong">>, <<"xui", "mi">>, <<"tteus">>,
       <<"xeo", "di", "xye", "xyo">>, <<"nu", "gu">>, <<"xeon", "je">>,
       <<"xwae">>, <<"xeo", "tteoh", "ge">>, <<"mwol">>, <<"mwon">>,
       <<"mu", "seun">>, <<"xeo", "neu">>, <<"hae", "xya">>,
       <<"ha", "myeon">>, <<"bang", "beob">>, <<"xeo", "di", "seo">> >>

MUEOS ==
    << "mu", "xeos" >>

HAEYA ==
    << "hae", "xya" >>

EODI ==
    << "xeo", "di" >>

SEOLJEONG ==
    << "seol", "jeong" >>

MALHANEUN ==
    << "mal", "ha", "neun" >>

what_how_words ==
    << <<"mwol">>, <<"xeo", "tteoh", "ge">>, <<"mu", "xeos">> >>

hotline_numbers ==
    << <<"1", "3", "2">>, <<"1", "8", "1", "1">> >>

what_words ==
    << <<"mwo">>, <<"mwol">>, <<"mu", "xeos">> >>

what_which_words ==
    << <<"mwol">>, <<"mu", "xeos">>, <<"xeo", "tteon">> >>

_detect_explanation_request(user_input) ==
    Capped(
      4 * HitCount(question_patterns, Lower(user_input))
      + (IF Contains(user_input, MUEOS) /\ Contains(user_input, HAEYA)
         THEN 5 ELSE 0)
      + (IF /\ Contains(user_input, HAEYA)
            /\ AnyIn(what_how_words, Lower(user_input))
         THEN 5 ELSE 0)
      + (IF /\ AnyIn(hotline_numbers, user_input)
            /\ Contains(Lower(user_input), EODI)
         THEN 6 ELSE 0)
      + (IF /\ Contains(user_input, SEOLJEONG)
            /\ AnyIn(what_words, Lower(user_input))
         THEN 5 ELSE 0)
      + (IF /\ Contains(user_input, MALHANEUN)
            /\ AnyIn(what_which_words, Lower(user_input))
         THEN 6 ELSE 0))

dissatisfaction_words ==
    << <<"xa", "ni">>, <<"da", "si">>, <<"da", "reun">>, <<"deo">>,
       <<"tto">>, <<"byeol", "ro">>, <<"bu", "jog">>, <<"geu", "reon">>,
       <<"jeong", "mal">>, <<"jin", "jja">>, <<"je", "dae", "ro">> >>

strong_dissatisfaction ==
    << <<"xa", "ni", " ", "geu", "reon">>,
       <<"jeong", "mal", " ", "do", "xum">>,
       <<"jin", "jja", " ", "do", "xum">>,
       <<"je", "dae", "ro", " ", "do", "xum">> >>

confusion_phrases ==
    << <<"xi", "hae", " ", "xan">>, <<"mo", "reu", "gess">>,
       <<"hes", "gal">>, <<"jal", " ", "mo", "reu">> >>

HOTLINE == <<"1", "3", "2">>

\* conversation_history[-n:]
LastN(history, n) ==
    SubSeq(history, Max(1, Len(history) - n + 1), Len(history))

_detect_dissatisfaction(user_input, conversation_history) ==
    Capped(
      2 * HitCount(dissatisfaction_words, Lower(user_input))
      + 4 * HitCount(strong_dissatisfaction, Lower(user_input))
      + 4 * HitCount(confusion_phrases, Lower(user_input))
      + (IF /\ Len(conversation_history) >= 2
            /\ \E i \in 1..Len(LastN(conversation_history, 2)) :
                  Contains(LastN(conversation_history, 2)[i].content, HOTLINE)
            /\ Contains(user_input, HOTLINE)
         THEN 3 ELSE 0))

\* the number of tokens two texts share
CommonKeywords(a, b) == Keywords(Lower(a)) \cap Keywords(Lower(b))

REPETITION_WINDOW == 3

\* the user messages among conversation_history[-3:]
recent_user_messages(conversation_history) ==
    SelectSeq(LastN(conversation_history, REPETITION_WINDOW),
              LAMBDA msg : msg.role = "user")

RECURSIVE RepetitionSum(_, _)
RepetitionSum(user_input, recent) ==
    IF recent = <<>>
    THEN 0
    ELSE (IF Cardinality(CommonKeywords(user_input, recent[1].content)) >= 2
          THEN 3 ELSE 0)
         + RepetitionSum(user_input, Tail(recent))

_detect_repetition(user_input, conversation_history) ==
    IF Len(conversation_history) < 2
    THEN 0
    ELSE Capped(RepetitionSum(user_input,
                              recent_user_messages(conversation_history)))

complexity_words ==
    << <<"geu", "reon", "de">>, <<"ha", "ji", "man">>, <<"geu", "ri", "go">>,
       <<"tto", "han">>, <<"ge", "da", "ga">>, <<"bog", "jab">>,
       <<"xyeo", "reo">>, <<"dong", "si", "xe">> >>

GEURIGO ==
    << "geu", "ri", "go" >>

KKAYO ==
    << "kka", "xyo" >>

LONG_INPUT == 50

_detect_complexity(user_input) ==
    Capped(
      (IF Len(user_input) > LONG_INPUT THEN 2 ELSE 0)
      + 3 * HitCount(complexity_words, Lower(user_input))
      + (IF /\ Contains(Lower(user_input), GEURIGO)
            /\ (Contains(user_input, <<"?">>) \/ Contains(user_input, KKAYO))
         THEN 4 ELSE 0))

emergency_fallback_words ==
    << <<"don">>, <<"song", "geum">>, <<"geub", "hae">>, <<"sa", "gi">> >>

help_fallback_words ==
    << <<"do", "xwa">>, <<"do", "xum">>, <<"xal", "ryeo">> >>

contact_fallback_words ==
    << <<"1", "3", "2">>, <<"1", "8", "1", "1">>, <<"beon", "ho">>,
       <<"xyeon", "rag">> >>

_suggest_rule_fallback(user_input) ==
    CASE AnyIn(emergency_fallback_words, Lower(user_input))
           -> "emergency_response"
      [] AnyIn(help_fallback_words, Lower(user_input)) -> "help_guidance"
      [] AnyIn(contact_fallback_words, Lower(user_input)) -> "contact_info"
      [] OTHER -> "general_guidance"

\* the thresholds of should_use_gemini, in tenths
CONTEXT_THRESHOLD == 7

EXPLANATION_THRESHOLD == 3

DISSATISFACTION_THRESHOLD == 3

REPETITION_THRESHOLD == 4

COMPLEXITY_THRESHOLD == 5

Detectors ==
    << "context_mismatch", "explanation_request", "dissatisfaction",
       "repetition", "complexity" >>

ThresholdOf(detector) ==
    CASE detector = "context_mismatch" -> CONTEXT_THRESHOLD
      [] detector = "explanation_request" -> EXPLANATION_THRESHOLD
      [] detector = "dissatisfaction" -> DISSATISFACTION_THRESHOLD
      [] detector = "repetition" -> REPETITION_THRESHOLD
      [] detector = "complexity" -> COMPLEXITY_THRESHOLD

\* no fallback_rule
NO_RULE == "None"

\* a call of should_use_gemini before its first statement has run
DecisionCall(user_input, conversation_history, last_ai_response) ==
    [ user_input           |-> user_input,
      conversation_history |-> conversation_history,
      last_ai_response     |-> last_ai_response,
      scores               |-> [d \in {} |-> 0],
      decision             |-> [ use_gemini    |-> FALSE,
                                 confidence    |-> 0,
                                 reasons       |-> <<>>,
                                 fallback_rule |-> NO_RULE ],
      pc                   |-> "called" ]

\* the five scores of a call
DetectorScores(c) ==
    [d \in {Detectors[i] : i \in 1..Len(Detectors)} |->
        CASE d = "context_mismatch"
               -> _detect_context_mismatch(c.user_input, c.last_ai_response)
          [] d = "explanation_request"
               -> _detect_explanation_request(c.user_input)
          [] d = "dissatisfaction"
               -> _detect_dissatisfaction(c.user_input,
                                          c.conversation_history)
          [] d = "repetition"
               -> _detect_repetition(c.user_input, c.conversation_history)
          [] d = "complexity" -> _detect_complexity(c.user_input)]

\* `if score > threshold: use_gemini = True; reasons.append(...)`, for the
\* detectors from position k on
RECURSIVE Reasons(_, _)
Reasons(scores, k) ==
    IF k > Len(Detectors)
    THEN <<>>
    ELSE (IF scores[Detectors[k]] > ThresholdOf(Detectors[k])
          THEN << [detector |-> Detectors[k], score |-> scores[Detectors[k]]] >>
          ELSE <<>>)
         \o Reasons(scores, k + 1)

RECURSIVE MaxScore(_, _)
MaxScore(scores, k) ==
    IF k > Len(Detectors)
    THEN 0
    ELSE Max(scores[Detectors[k]], MaxScore(scores, k + 1))

Decided(c, scores) ==
    [c EXCEPT
       !.scores = scores,
       !.decision =
          [ use_gemini    |-> Reasons(scores, 1) # <<>>,
            confidence    |-> MaxScore(scores, 1),
            reasons       |-> Reasons(scores, 1),
            fallback_rule |-> IF Reasons(scores, 1) # <<>>
                              THEN NO_RULE
                              ELSE _suggest_rule_fallback(c.user_input) ],
       !.pc = "returned"]

\* should_use_gemini with one cutoff, that of the context detector, for all
should_use_gemini_one_cutoff(c) ==
    [Decided(c, DetectorScores(c)) EXCEPT
       !.decision.use_gemini =
          \E k \in 1..Len(Detectors) :
             DetectorScores(c)[Detectors[k]] > CONTEXT_THRESHOLD]

should_use_gemini(c) == Decided(c, DetectorScores(c))

\* utterances and replies a decision is asked for
D_PREVENT ==
    << "xye", "bang", "bang", "beob", " ", "mal", "go", " ", "sa", "hu", " ",
       "dae", "cheo", " ", "bang", "beob", "xe", " ", "dae", "hae", " ",
       "xal", "ryeo", "ju", "se", "xyo" >>

D_SETTING ==
    << "xye", "bang", " ", "seol", "jeong", "xi", " ", "mwo", "xye", "xyo" >>

D_WHERE ==
    << "1", "3", "2", "beon", "xi", " ", "xeo", "di", "xye", "xyo" >>

D_ACCEPT ==
    << "ne", " ", "bad", "xa", "bol", "rae", "xyo" >>

D_TAKE ==
    << "bad", "xa", "bol", "rae", "xyo" >>

D_MORE ==
    << "geu", "ri", "go", " ", "da", "reun", " ", "bang", "beob", " ", "deo",
       " ", "xiss", "xeul", "kka", "xyo" >>

A_PREVENT ==
    << "sang", "hwang", "xeul", " ", "pa", "xag", "haess", "seub", "ni",
       "da", ".", " ", "xye", "bang", " ", "bang", "beob", "xeul", " ",
       "xal", "ryeo", "deu", "ril", "ge", "xyo", "." >>

A_OFFER ==
    << "mu", "ryo", " ", "sang", "dam", " ", "bad", "xa", "bo", "sil", "rae",
       "xyo", "?" >>

A_HOTLINE ==
    << "gung", "geum", "han", " ", "ge", " ", "xiss", "xeu", "myeon", " ",
       "1", "3", "2", "beon", "xeu", "ro", " ", "jeon", "hwa", "ha", "se",
       "xyo", "." >>

DecisionInputs ==
    {D_PREVENT, D_SETTING, D_WHERE, D_ACCEPT, D_TAKE, D_MORE}

LastResponses == {NO_RESPONSE, A_PREVENT, A_OFFER}

HistoryMessages ==
    { [role |-> "user", content |-> D_WHERE],
      [role |-> "user", content |-> D_ACCEPT],
      [role |-> "assistant", content |-> A_HOTLINE] }

RECURSIVE Histories(_)
Histories(n) ==
    IF n = 0
    THEN {<<>>}
    ELSE Histories(n - 1)
           \cup {Append(h, msg) :
                    h \in {g \in Histories(n - 1) : Len(g) = n - 1},
                    msg \in HistoryMessages}

(***************************************************************************)
(* The urgency classifier as it is called: _initial_assessment_node on a   *)
(* session whose last user message is the text to classify.                *)
(***************************************************************************)
U_RICH ==
    << "geub", "hae", "xyo", " ", "ppal", "ri", " ", "do", "xwa", "ju", "se",
       "xyo", " ", "bo", "xi", "seu", " ", "pi", "sing", " ", "dang",
       "haess", "xeo", "xyo", " ", "5", "0", "0", "man", "xwon", " ", "bo",
       "naess", "xeo", "xyo", " ", "bang", "geum" >>

U_NAME ==
    << "xi", "reum", "xi", " ", "mwo", "xya", "?" >>

U_CURIOUS ==
    << "sa", "gi", " ", "dang", "haess", "xeo", "xyo", " ", "gung", "geum" >>

U_SPACES == <<" ", " ", " ">>

ClassifiedTexts ==
    {<<>>, U_BLANK, U_SPACES, U_YES, U_BARE, U_TIME, U_SEVEN, U_EMERGENCY,
     U_RICH, U_NAME, U_CURIOUS}

\* the urgency score before it is brought into the range 1..10
urgency_score(user_input) ==
    QuestionPenalty(user_input,
        ShortInputPenalty(user_input,
            ContextScore(user_input, Strip(Lower(user_input)),
                         PatternScore(user_input))))

\* a session after the greeting, with the given user messages, on which
\* _initial_assessment_node is about to run
AssessmentCall(texts) ==
    [ session |-> [_greeting_node(create_initial_recovery_state)
                     EXCEPT !.messages =
                        @ \o [i \in 1..Len(texts) |-> UserMsg(texts[i])]],
      pc      |-> "called" ]

AssessmentReturn(c) ==
    [ session |-> _initial_assessment_node(c.session), pc |-> "returned" ]

(***************************************************************************)
(* The two yes/no parsers applied to a text, to the same text once more    *)
(* and to their own results.                                               *)
(***************************************************************************)
\* "아니 네"
U_NO_YES == <<"xa", "ni", " ", "ne">>

\* "했어요"
U_DID == <<"haess", "xeo", "xyo">>

\* "모름"
U_UNKNOWN == <<"mo", "reum">>

\* "예"
U_YE == <<"xye">>

\* "글쎄요"
U_WELL == <<"geul", "sse", "xyo">>

YesNoTexts ==
    {<<>>, U_BLANK, YES, NO, UNCONFIRMED, U_YE, U_NO_YES, U_DID, U_UNKNOWN,
     U_WELL, U_BARE, U_EMERGENCY, <<"N", "O">>, <<" ", "Y", "e", "s", " ">>}

\* both parsers applied to one text
BothParsers(text) ==
    [ parse_answer   |-> _parse_answer(text, "yes_no"),
      extract_yes_no |-> extract_yes_no(text).value ]

NOT_PARSED == [parse_answer |-> ABSENT, extract_yes_no |-> ABSENT]

YesNoCall(text) ==
    [ text |-> text, first |-> NOT_PARSED, second |-> NOT_PARSED,
      of_result |-> NOT_PARSED, pc |-> "called" ]

\* the text is parsed
YesNoParsed(c) == [c EXCEPT !.first = BothParsers(c.text), !.pc = "parsed"]

\* the text is parsed once more, and each parser parses its own result
YesNoReparsed(c) ==
    [c EXCEPT !.second = BothParsers(c.text),
              !.of_result =
                  [ parse_answer   |-> _parse_answer(c.first.parse_answer,
                                                     "yes_no"),
                    extract_yes_no |->
                        extract_yes_no(c.first.extract_yes_no).value ],
              !.pc = "reparsed"]

(***************************************************************************)
(* The amount and time parsers of the graph (_parse_answer) and of the     *)
(* extractor (extract_amount, extract_time) applied to one text.           *)
(***************************************************************************)
\* "15억"
A_15EOG == <<"1", "5", "xeog">>

\* "300만원"
A_300MAN == <<"3", "0", "0", "man", "xwon">>

\* "1,500만원"
A_COMMA == <<"1", ",", "5", "0", "0", "man", "xwon">>

\* "5천만원"
A_5CHEONMAN == <<"5", "cheon", "man", "xwon">>

\* "3백만원"
A_3BAEGMAN == <<"3", "baeg", "man", "xwon">>

\* "1억 5천만원"
A_TWO_UNITS == <<"1", "xeog", " ", "5", "cheon", "man", "xwon">>

\* "네, 300만원"
A_AFTER_COMMA == <<"ne", ",", " ", "3", "0", "0", "man", "xwon">>

\* "25분 전"
T_CLEAN == <<"2", "5", "bun", " ", "jeon">>

\* "30분전에 다"
T_TIGHT == <<"3", "0", "bun", "jeon", "xe", " ", "da">>

\* "25분 전 다"
T_SPACE_DA == <<"2", "5", "bun", " ", "jeon", " ", "da">>

\* "3시간 전에 다"
T_HOURS == <<"3", "si", "gan", " ", "jeon", "xe", " ", "da">>

\* "어제"
T_YESTERDAY == <<"xeo", "je">>

\* "오늘 오후"
T_TODAY == <<"xo", "neul", " ", "xo", "hu">>

AmountTexts ==
    {A_15EOG, A_300MAN, A_COMMA, A_5CHEONMAN, A_3BAEGMAN, A_TWO_UNITS,
     A_AFTER_COMMA, U_BARE, U_YES, U_EMERGENCY}

TimeTexts ==
    {T_CLEAN, T_TIGHT, T_SPACE_DA, T_HOURS, T_YESTERDAY, T_TODAY,
     U_TIME, U_YES}

\* a call of both parsers for an answer of the given type
ParseCall(text, answer_type) ==
    [ text |-> text, answer_type |-> answer_type,
      parse_answer |-> ABSENT, extracted |-> ABSENT, pc |-> "called" ]

ParseReturn(c) ==
    [c EXCEPT !.parse_answer = _parse_answer(c.text, c.answer_type),
              !.extracted = extract_all_info(c.text, c.answer_type).value,
              !.pc = "returned"]

(***************************************************************************)
(* VoicePhishingGraph._route_after_assessment (core/graph_backup.py), the  *)
(* router behind initial_assessment.  The assessment node itself is a      *)
(* method of core.nodes.VoicePhishingNodes, which the repository does not  *)
(* ship: the urgency and the confidence it leaves are inputs.  Confidence  *)
(* is kept in tenths.                                                      *)
(***************************************************************************)
\* "돈을 보냈는데 사기당한 것 같아요"
R_SENT ==
    <<"don", "xeul", " ", "bo", "naess", "neun", "de", " ", "sa", "gi", "dang", "han", " ", "geos", " ", "gat", "xa", "xyo">>

\* "이상한 전화가 왔는데 사기인지 궁금해요"
R_ODD ==
    <<"xi", "sang", "han", " ", "jeon", "hwa", "ga", " ", "xwass", "neun", "de", " ", "sa", "gi", "xin", "ji", " ", "gung", "geum", "hae", "xyo">>

\* "몇 달째 계속 여러 사람한테서 연락이 와서 너무 복잡해서 이해를 못하겠어요"
R_COMPLEX ==
    <<"myeoch", " ", "dal", "jjae", " ", "gye", "sog", " ", "xyeo", "reo", " ", "sa", "ram", "han", "te", "seo", " ", "xyeon", "rag", "xi", " ", "xwa", "seo", " ", "neo", "mu", " ", "bog", "jab", "hae", "seo", " ", "xi", "hae", "reul", " ", "mos", "ha", "gess", "xeo", "xyo">>

\* "이체했어요"
R_TRANSFERRED ==
    <<"xi", "che", "haess", "xeo", "xyo">>

\* "이상한 전화"
R_ODD_SHORT ==
    <<"xi", "sang", "han", " ", "jeon", "hwa">>

emergency_keywords ==
    << <<"don", "xeul", " ", "bo", "naess">>,
       <<"xi", "che", "haess">>,
       <<"song", "geum", "haess">>,
       <<"gye", "jwa", "beon", "ho", "reul", " ", "xal", "ryeo", "jwoss">>,
       <<"bi", "mil", "beon", "ho", "reul", " ", "mal", "haess">>,
       <<"xaeb", "xeul", " ", "seol", "chi", "haess">>,
       <<"ji", "geum", "do", " ", "jeon", "hwa", "ga">>,
       <<"gye", "sog", " ", "xyeon", "rag">>,
       <<"keun", " ", "don">>,
       <<"manh", "xeun", " ", "don">>,
       <<"jeon", " ", "jae", "san">>,
       <<"dae", "chul", "bad", "xa", "seo">> >>

complex_indicators ==
    << <<"xyeo", "reo", " ", "beon">>,
       <<"gye", "sog">>,
       <<"myeoch", " ", "dal", "jjae">>,
       <<"bog", "jab", "hae", "seo">>,
       <<"xi", "hae", " ", "mos", "ha", "gess">>,
       <<"neo", "mu", " ", "xeo", "ryeo", "xwo">>,
       <<"mo", "reu", "gess", "xeo", "xyo">> >>

RouteTexts == {R_SENT, R_ODD, R_COMPLEX, R_TRANSFERRED, R_ODD_SHORT, U_YES}

AssessedUrgencies == {5, 8}

AssessedConfidences == {2, 5}

\* len(t.split())
RECURSIVE WordCount(_)
WordCount(t) ==
    IF t = <<>>
    THEN 0
    ELSE IF Head(t) \in Whitespace
         THEN WordCount(Tail(t))
         ELSE IF Len(t) > 1 /\ t[2] \notin Whitespace
              THEN WordCount(Tail(t))
              ELSE 1 + WordCount(Tail(t))

\* the last user message, lower-cased
backup_get_last_user_message(st) ==
    IF UserIndexes(st.messages) = {}
    THEN <<>>
    ELSE Lower(st.messages[CHOOSE i \in UserIndexes(st.messages) :
                              \A j \in UserIndexes(st.messages) : j <= i].content)

RouterInitialState ==
    [ messages            |-> <<>>,
      urgency_level       |-> 5,
      analysis_confidence |-> 5,
      assessment_attempts |-> 0,
      routes              |-> <<>> ]

\* the session as the assessment node hands it to the router
HandedToRouter(st, text, urgency, confidence) ==
    [st EXCEPT !.messages = <<UserMsg(Strip(text))>>,
               !.urgency_level = urgency,
               !.analysis_confidence = confidence]

\* the branches below the attempts check; attempts is the count read
\* before the increment
RouteBelowCap(last_message, urgency, confidence, attempts, unclear_cap) ==
    IF AnyIn(emergency_keywords, last_message) \/ urgency >= 8
    THEN "emergency"
    ELSE IF (confidence < 3 \/ WordCount(last_message) < 3) /\ attempts < unclear_cap
         THEN "unclear"
         ELSE IF AnyIn(complex_indicators, last_message)
              THEN "escalate"
              ELSE "normal"

MAX_ASSESSMENT_ATTEMPTS == 3

UNCLEAR_ATTEMPTS == 2

RouteWithCap(st, unclear_cap) ==
    IF st.assessment_attempts >= MAX_ASSESSMENT_ATTEMPTS
    THEN [st EXCEPT !.routes = Append(@, "normal")]
    ELSE [st EXCEPT !.assessment_attempts = @ + 1,
                    !.routes = Append(@, RouteBelowCap(backup_get_last_user_message(st),
                                                       st.urgency_level,
                                                       st.analysis_confidence,
                                                       st.assessment_attempts,
                                                       unclear_cap))]

\* The router as it would be with 'unclear' open until the attempts run
\* out.
_route_after_assessment_unclear_to_the_end(st) ==
    RouteWithCap(st, MAX_ASSESSMENT_ATTEMPTS)

\* the session after the call, with the route it returned at the end of
\* routes
_route_after_assessment(st) == RouteWithCap(st, UNCLEAR_ATTEMPTS)

(***************************************************************************)
(* State machine                                                           *)
(***************************************************************************)
VARIABLES variant, env, state

vars == <<variant, env, state>>

MaxTurns == 7

MaxGraphTurns == 4

MaxRepeats == 1

MaxCalls == 2

MaxManagerTurns == 3

MaxHybridInputs == 5

\* after MaxHybridInputs utterances a session of the hybrid graph is driven
\* on with the neutral utterance alone
MaxHybridDrive == 15

MaxBackupInputs == 3

MaxFaultTurns == 6

MaxFaults == 1

MaxReprompts == 3

MaxSpeaks == 3

MaxHistory == 4

MaxCacheRequests == 12

MaxCacheRepeats == 2

MaxCacheFailures == 1

MaxRoutes == 5

MaxClock == 11

MaxAccepted == 2

MaxLoopTurns == 2

MaxBurst == 11

MaxBurstClock == 1

\* Sessions of the manager's loop are explored either over a long time with
\* few transcripts ("loop") or over a burst of transcripts in a short time
\* ("burst").
LoopVariants == {"loop", "burst"}

\* Sub-models of one service or of one function, without a session
\* dictionary.
ServiceVariants == {"tts", "cache", "decision", "assess", "yesno", "parse", "route"}

ClockBound == IF variant = "burst" THEN MaxBurstClock ELSE MaxClock

AcceptedBound == IF variant = "burst" THEN MaxBurst ELSE MaxAccepted

\* The main loop is followed from the start of the session or, in a burst,
\* also from the moment a session in which nothing has been said yet is
\* SESSION_TIMEOUT seconds old.
SessionStarts == IF variant = "burst" THEN {0, 0 - SESSION_TIMEOUT} ELSE {0}

TurnBound ==
    CASE variant = "graph" -> MaxGraphTurns
      [] variant = "fault" -> MaxFaultTurns
      [] OTHER             -> MaxTurns

Variants ==
    {"turn", "graph", "gemini", "manager", "hybrid", "backup", "improved", "loop",
     "burst", "tts", "cache", "decision", "assess", "yesno", "parse",
     "route"}

FaultVariants == {"fault", "hybrid", "backup"}

StructuredVariants == {"turn", "graph", "fault"}

\* How the hybrid graph was constructed (use_ai) and is run (node_thread).
Environments ==
    { [use_ai |-> FALSE, node_thread |-> "worker"],
      [use_ai |-> TRUE,  node_thread |-> "worker"],
      [use_ai |-> TRUE,  node_thread |-> "loop"] }

Repeats(st) ==
    Cardinality({i \in 1..Len(st.messages) : st.messages[i].kind = "please_repeat"})

InputAllowed(user_input) ==
    IF IsBlank(user_input)
    THEN Repeats(state) < MaxRepeats
    ELSE state.conversation_turns < TurnBound

InitOf(variants) ==
    /\ variant \in variants
    /\ IF variant = "hybrid"
       THEN env \in Environments
       ELSE env = [use_ai |-> FALSE, node_thread |-> "worker"]
    /\ CASE variant = "gemini" ->
               \E is_enabled \in BOOLEAN : state = GeminiAssistant(is_enabled)
         [] variant = "manager" -> state = Manager
         [] variant = "hybrid" -> state = HybridInitialState
         [] variant = "backup" -> state = BackupInitialState
         [] variant = "improved" -> state = ImprovedInitialState
         [] variant \in LoopVariants ->
               \E is_monitoring \in BOOLEAN, start \in SessionStarts :
                   state = ConversationLoop(is_monitoring, start)
         [] variant = "tts" ->
               \E is_enabled \in BOOLEAN : state = TtsService(is_enabled)
         [] variant = "assess" ->
               \E texts \in {<<>>} \cup {<<older, text>> :
                                          older \in {U_EMERGENCY, U_BLANK},
                                          text \in ClassifiedTexts} :
                   state = AssessmentCall(texts)
         [] variant = "yesno" ->
               \E text \in YesNoTexts : state = YesNoCall(text)
         [] variant = "route" -> state = RouterInitialState
         [] variant = "cache" -> state = NumberedTtsService
         [] variant = "parse" ->
               \/ \E text \in AmountTexts : state = ParseCall(text, "amount")
               \/ \E text \in TimeTexts : state = ParseCall(text, "time")
         [] variant = "decision" ->
               \E user_input \in DecisionInputs,
                  conversation_history \in Histories(MaxHistory),
                  last_ai_response \in LastResponses :
                   state = DecisionCall(user_input, conversation_history,
                                        last_ai_response)
         [] OTHER -> state = create_initial_recovery_state

Init == InitOf(Variants)

InitFault == InitOf(FaultVariants)

StartConversation ==
    /\ variant \in StructuredVariants
    /\ ~state.greeting_done
    /\ state' = start_conversation
    /\ UNCHANGED <<variant, env>>

ContinueConversation(user_input) ==
    /\ variant \in StructuredVariants
    /\ state.greeting_done
    /\ InputAllowed(user_input)
    /\ state' = continue_conversation(state, user_input, FALSE, 0)
    /\ UNCHANGED <<variant, env>>

GraphContinueConversation(user_input) ==
    /\ variant = "graph"
    /\ state.greeting_done
    /\ InputAllowed(user_input)
    /\ state' = graph_continue_conversation(state, user_input)
    /\ UNCHANGED <<variant, env>>

\* One call of HybridVoicePhishingGraph._process_with_gemini: the model
\* answers with out, or never answers and the call stays suspended.
ProcessWithGemini(user_input, out) ==
    /\ variant = "gemini"
    /\ ~state.awaiting
    /\ Len(state.conversation_history) < MaxCalls
    /\ state' =
          IF state.is_enabled /\ out.kind = "hang"
          THEN [state EXCEPT !.awaiting = TRUE]
          ELSE LET g == IF state.is_enabled /\ out.kind # "exception"
                        THEN RecordTurn(state, user_input,
                                        analyze_and_respond(TRUE, user_input, out))
                        ELSE state
               IN  [g EXCEPT !.response =
                        _process_with_gemini(state.is_enabled, user_input, out)]
    /\ UNCHANGED <<variant, env>>

HybridStartConversation ==
    /\ variant = "hybrid"
    /\ state.messages = <<>>
    /\ state' = hybrid_start_conversation(env)
    /\ UNCHANGED <<variant, env>>

HybridContinueConversation(user_input) ==
    /\ variant = "hybrid"
    /\ state.messages # <<>>
    /\ IF IsBlank(user_input)
       THEN Repeats(state) < MaxRepeats
       ELSE \/ Cardinality(UserIndexes(state.messages)) < MaxHybridInputs
            \/ /\ user_input = U_YES
               /\ Cardinality(UserIndexes(state.messages)) < MaxHybridDrive
    /\ state' = hybrid_continue_conversation(env, state, user_input)
    /\ UNCHANGED <<variant, env>>

BackupStartNewConversation(outcome) ==
    /\ variant = "backup"
    /\ state.messages = <<>>
    /\ state' = start_new_conversation(outcome)
    /\ UNCHANGED <<variant, env>>

BackupProcessUserInput(user_input, outcome) ==
    /\ variant = "backup"
    /\ state.messages # <<>>
    /\ IF IsBlank(user_input)
       THEN Repeats(state) < MaxRepeats
       ELSE Cardinality(UserIndexes(state.messages)) < MaxBackupInputs
    /\ state' = process_user_input(state, user_input, outcome)
    /\ UNCHANGED <<variant, env>>

Faults(st) ==
    Cardinality({i \in 1..Len(st.messages) : st.messages[i].kind = "safe_reply_132"})

\* continue_conversation when a statement of its try block raises after n
\* mutations of the session.
ContinueConversationFault(user_input, n) ==
    /\ variant = "fault"
    /\ state.greeting_done
    /\ ~IsBlank(user_input)
    /\ InputAllowed(user_input)
    /\ Faults(state) < MaxFaults
    /\ state' = continue_conversation(state, user_input, TRUE, n)
    /\ UNCHANGED <<variant, env>>

\* HighPerformanceConversationManager.initialize / start_conversation
ManagerStart ==
    /\ variant = "manager"
    /\ ~state.is_running
    /\ ~state.current_langgraph_state.greeting_done
    /\ state' = [state EXCEPT !.current_langgraph_state = start_conversation,
                              !.is_running = TRUE]
    /\ UNCHANGED <<variant, env>>

\* _process_user_input_optimized, up to the return of the awaited coroutine
\* or to its suspension after it has logged the utterance.
ProcessUserInput(user_input, returns) ==
    /\ variant = "manager"
    /\ state.is_running
    /\ ~state.is_processing
    /\ state.current_langgraph_state.conversation_turns < MaxManagerTurns
    /\ \E st \in {continue_conversation(state.current_langgraph_state,
                                        user_input, FALSE, 0)} :
         state' =
          IF returns
          THEN TurnReturned(state, st)
          ELSE [state EXCEPT !.current_langgraph_state = AddUserTurn(@, user_input),
                             !.is_processing = TRUE,
                             !.conversation_state = "processing",
                             !.awaited = "continue_conversation",
                             !.user_input = user_input,
                             !.elapsed = 0]
    /\ UNCHANGED <<variant, env>>

\* One second passes while the awaited coroutine is suspended.
Tick ==
    /\ variant = "manager"
    /\ state.awaited # "none"
    /\ state.elapsed < TURN_TIMEOUT
    /\ state' = [state EXCEPT !.elapsed = @ + 1, !.session_age = @ + 1]
    /\ UNCHANGED <<variant, env>>

\* The collaborator answers before wait_for gives up: the coroutine resumes
\* and returns.
TurnResumes ==
    /\ variant = "manager"
    /\ state.awaited # "none"
    /\ state.elapsed < TURN_TIMEOUT
    /\ \E st \in {TurnBody(state.current_langgraph_state, AllStages)} :
         state' = TurnReturned(state, st)
    /\ UNCHANGED <<variant, env>>

\* asyncio.TimeoutError from wait_for: _handle_timeout_response, finally.
TurnTimeout ==
    /\ variant = "manager"
    /\ state.awaited # "none"
    /\ state.elapsed = TURN_TIMEOUT
    /\ state' = _handle_timeout_response(state)
    /\ UNCHANGED <<variant, env>>

\* One turn of a session whose slots the improved collection node fills: the
\* caller passes the cursor of the session.
ProcessConversationTurn(user_input) ==
    /\ variant = "improved"
    /\ \A f \in SlotFields : state.reprompts[f] < MaxReprompts
    /\ state' = CountReprompt(state,
                              process_conversation_turn(state,
                                                        state.current_question_index,
                                                        user_input))
    /\ UNCHANGED <<variant, env>>

\* The STT thread delivers a final transcript to fast_transcript_handler.
STTFinal(text) ==
    /\ variant \in LoopVariants
    /\ state.is_running
    /\ state.stt_pc = "idle"
    /\ state.history.accepted < AcceptedBound
    /\ state' = fast_transcript_handler(state, text)
    /\ UNCHANGED <<variant, env>>

STTGetNowait ==
    /\ variant \in LoopVariants
    /\ state.stt_pc = "get_nowait"
    /\ state' = DropOldest(state)
    /\ UNCHANGED <<variant, env>>

STTPutNowait ==
    /\ variant \in LoopVariants
    /\ state.stt_pc = "put_nowait"
    /\ state' = PutTranscript(state)
    /\ UNCHANGED <<variant, env>>

MainLoopTop ==
    /\ variant \in LoopVariants
    /\ state.loop_pc = "poll"
    /\ Len(state.history.started) < MaxLoopTurns
    /\ state' = LoopTop(state)
    /\ UNCHANGED <<variant, env>>

TurnAnswers ==
    /\ variant \in LoopVariants
    /\ state.loop_pc = "processing"
    /\ state.now - state.awaited_since < TURN_TIMEOUT
    /\ state' = TurnAnswered(state)
    /\ UNCHANGED <<variant, env>>

TurnTimesOut ==
    /\ variant \in LoopVariants
    /\ state.loop_pc = "processing"
    /\ state.now - state.awaited_since >= TURN_TIMEOUT
    /\ state' = TurnTimedOut(state)
    /\ UNCHANGED <<variant, env>>

\* The callback on_ai_response or the playback raises.
TurnFails ==
    /\ variant \in LoopVariants
    /\ state.loop_pc = "speaking"
    /\ ~state.timed_out
    /\ state' = TurnRaised(state)
    /\ UNCHANGED <<variant, env>>

ReplyPlayed ==
    /\ variant \in LoopVariants
    /\ state.loop_pc = "speaking"
    /\ state' = ReplySpoken(state)
    /\ UNCHANGED <<variant, env>>

\* The clock counts whole seconds and silence_check_interval is a fraction
\* of one: whether current_time - last_silence_check has reached it is an
\* input of the iteration.
MainLoopSilenceCheck(interval_passed) ==
    /\ variant \in LoopVariants
    /\ state.loop_pc = "check"
    /\ state' = SilenceCheck(state, interval_passed)
    /\ UNCHANGED <<variant, env>>

FollowUpPlayed ==
    /\ variant \in LoopVariants
    /\ state.loop_pc = "follow_up"
    /\ state' = FollowUpSpoken(state)
    /\ UNCHANGED <<variant, env>>

AudioActivity ==
    /\ variant \in LoopVariants
    /\ state.is_running
    /\ state.is_monitoring
    /\ state.silence_detection.last_audio_activity # state.now
    /\ state' = AudioHeard(state)
    /\ UNCHANGED <<variant, env>>

\* A second passes.  Seconds pass while the loop is suspended (in its sleep,
\* in wait_for, or while a reply or a follow-up is played), not between the
\* statements of an iteration or of the transcript callback; wait_for does
\* not let the awaited turn outlive its timeout.
ClockTick ==
    /\ variant \in LoopVariants
    /\ state.loop_pc \in {"poll", "processing", "speaking", "follow_up"}
    /\ state.stt_pc = "idle"
    /\ state.now < ClockBound
    /\ ~(state.loop_pc = "processing"
            /\ state.now - state.awaited_since >= TURN_TIMEOUT)
    /\ state' = [state EXCEPT !.now = @ + 1]
    /\ UNCHANGED <<variant, env>>

\* _speak_response_optimized is called with a reply, a follow-up question,
\* a greeting or a farewell.
Speak(text) ==
    /\ variant = "tts"
    /\ state.pc = "listening"
    /\ Len(state.delivered) < MaxSpeaks
    /\ state' = _speak_response_optimized(state, text)
    /\ UNCHANGED <<variant, env>>

\* A session that fills the cache: the text is a new one, or the first
\* text or the newest one again.
SpeakNumbered(n) ==
    /\ variant = "cache"
    /\ state.pc = "listening"
    /\ Len(state.delivered) < MaxCacheRequests
    /\ \/ n = state.texts + 1
       \/ /\ n \in {1, state.texts}
          /\ Len(state.delivered) - state.texts < MaxCacheRepeats
    /\ state' = [_speak_response_optimized(state, CacheText(n))
                    EXCEPT !.texts = IF n > @ THEN n ELSE @]
    /\ UNCHANGED <<variant, env>>

TtsVariants == {"tts", "cache"}

\* requests that got no audio, of which a session of the cache sub-model
\* has at most MaxCacheFailures
FailuresLeft ==
    \/ variant = "tts"
    \/ Cardinality({i \in 1..Len(state.delivered) : state.delivered[i] = "empty"})
          < MaxCacheFailures

\* The worker thread finishes the client call in time, with audio or, after
\* an exception of the client, with b''.
TtsReturns(data) ==
    /\ variant \in TtsVariants
    /\ state.pc = "wait_for"
    /\ state.elapsed < state.timeout
    /\ data = "empty" => FailuresLeft
    /\ state' = _fast_tts_processing_returns(state, data)
    /\ UNCHANGED <<variant, env>>

\* Half a second passes while the client call is awaited.
TtsTick ==
    /\ variant \in TtsVariants
    /\ state.pc = "wait_for"
    /\ state.elapsed < state.timeout
    /\ FailuresLeft
    /\ state' = [state EXCEPT !.elapsed = @ + 1]
    /\ UNCHANGED <<variant, env>>

TtsTimesOut ==
    /\ variant \in TtsVariants
    /\ state.pc = "wait_for"
    /\ state.elapsed >= state.timeout
    /\ state' = _fast_tts_processing_times_out(state)
    /\ UNCHANGED <<variant, env>>

PlaybackEnds ==
    /\ variant \in TtsVariants
    /\ state.pc = "playing"
    /\ state' = PlaybackDone(state)
    /\ UNCHANGED <<variant, env>>

ShouldUseGemini ==
    /\ variant = "decision"
    /\ state.pc = "called"
    /\ state' = should_use_gemini(state)
    /\ UNCHANGED <<variant, env>>

InitialAssessment ==
    /\ variant = "assess"
    /\ state.pc = "called"
    /\ state' = AssessmentReturn(state)
    /\ UNCHANGED <<variant, env>>

ParseYesNoAnswer ==
    /\ variant = "yesno"
    /\ state.pc = "called"
    /\ state' = YesNoParsed(state)
    /\ UNCHANGED <<variant, env>>

ParseYesNoAgain ==
    /\ variant = "yesno"
    /\ state.pc = "parsed"
    /\ state' = YesNoReparsed(state)
    /\ UNCHANGED <<variant, env>>

ParseTypedAnswer ==
    /\ variant = "parse"
    /\ state.pc = "called"
    /\ state' = ParseReturn(state)
    /\ UNCHANGED <<variant, env>>

\* The assessment node has run on the session, whose last user message is
\* text, and the router is called.
RouteAfterAssessment(text, urgency, confidence) ==
    /\ variant = "route"
    /\ Len(state.routes) < MaxRoutes
    /\ state' = _route_after_assessment(
                    HandedToRouter(state, text, urgency, confidence))
    /\ UNCHANGED <<variant, env>>

Next ==
    \/ StartConversation
    \/ \E u \in Utterances(variant) \cup BlankUtterances : ContinueConversation(u)
    \/ \E u \in Utterances(variant) \cup BlankUtterances : GraphContinueConversation(u)
    \/ \E u \in {U_EMERGENCY, U_YES}, out \in LLMOutcomes : ProcessWithGemini(u, out)
    \/ HybridStartConversation
    \/ \E u \in {U_EMERGENCY, U_YES} \cup BlankUtterances : HybridContinueConversation(u)
    \/ \E outcome \in BackupRunOutcomes : BackupStartNewConversation(outcome)
    \/ \E u \in {U_EMERGENCY, U_YES} \cup BlankUtterances, outcome \in BackupRunOutcomes :
            BackupProcessUserInput(u, outcome)
    \/ ManagerStart
    \/ \E u \in {U_EMERGENCY, U_YES}, returns \in BOOLEAN : ProcessUserInput(u, returns)
    \/ Tick
    \/ TurnResumes
    \/ TurnTimeout
    \/ \E u \in Utterances(variant) : ProcessConversationTurn(u)
    \/ \E text \in {U_EMERGENCY, U_YES} : STTFinal(text)
    \/ STTGetNowait
    \/ STTPutNowait
    \/ MainLoopTop
    \/ TurnAnswers
    \/ TurnTimesOut
    \/ TurnFails
    \/ ReplyPlayed
    \/ \E interval_passed \in BOOLEAN : MainLoopSilenceCheck(interval_passed)
    \/ FollowUpPlayed
    \/ AudioActivity
    \/ ClockTick
    \/ \E text \in SpokenTexts : Speak(text)
    \/ \E n \in 1..MaxCacheRequests : SpeakNumbered(n)
    \/ \E data \in {"audio", "empty"} : TtsReturns(data)
    \/ TtsTick
    \/ TtsTimesOut
    \/ PlaybackEnds
    \/ ShouldUseGemini
    \/ InitialAssessment
    \/ ParseYesNoAnswer
    \/ ParseYesNoAgain
    \/ ParseTypedAnswer
    \/ \E text \in RouteTexts, urgency \in AssessedUrgencies,
          confidence \in AssessedConfidences :
          RouteAfterAssessment(text, urgency, confidence)

Spec == Init /\ [][Next]_vars

\* The three graph classes with exceptions raised inside a turn.
NextFault ==
    \/ StartConversation
    \/ \E u \in Utterances(variant) \cup BlankUtterances : ContinueConversation(u)
    \/ \E u \in Utterances(variant), n \in 0..AllStages : ContinueConversationFault(u, n)
    \/ HybridStartConversation
    \/ \E u \in {U_EMERGENCY, U_YES} \cup BlankUtterances : HybridContinueConversation(u)
    \/ \E outcome \in BackupRunOutcomes : BackupStartNewConversation(outcome)
    \/ \E u \in {U_EMERGENCY, U_YES} \cup BlankUtterances, outcome \in BackupRunOutcomes :
            BackupProcessUserInput(u, outcome)

SpecFault == InitFault /\ [][NextFault]_vars

(***************************************************************************)
(* Properties                                                              *)
(***************************************************************************)
AssistantCount(msgs) ==
    Cardinality({i \in 1..Len(msgs) : msgs[i].role = "assistant"})

\* C1: every non-empty utterance handed to continue_conversation appends
\* exactly one assistant reply to the message log.
C1_ExactlyOneReply ==
    [][\A u \in Utterances(variant) :
          variant = "turn" /\ ContinueConversation(u) =>
              AssistantCount(state'.messages) = AssistantCount(state.messages) + 1]_vars

RuleBasedReplies ==
    { RULE_REPLY_HIGH, RULE_REPLY_MEDIUM, RULE_REPLY_LOW,
      CRITICAL_EMERGENCY_RESPONSE, EMERGENCY_RESPONSE, CONCERN_RESPONSE,
      STANDARD_RESPONSE,
      _add_emergency_safety_net(_practical_emergency_fallback).response }

FailedOutcomes ==
    { out \in LLMOutcomes :
        \/ out.kind \in {"plain", "exception", "hang"}
        \/ out.text = <<>>
        \/ Len(out.text) > AI_RESPONSE_MAX_LENGTH }

\* C2: when the LLM call times out, raises, returns malformed JSON, or
\* returns an empty or over-long response, the reply of the turn is one of
\* the rule-based replies, not text taken from the LLM output.
C2_FailureFallsBackToRules ==
    [][\A u \in {U_EMERGENCY, U_YES}, out \in FailedOutcomes :
          (variant = "gemini" /\ state.is_enabled /\ ProcessWithGemini(u, out))
              => state'.response.response \in RuleBasedReplies]_vars

\* C3: if the LLM collaborator never resolves, the turn still ends within
\* the configured LLM timeout: no turn is still waiting once more than
\* GEMINI_TIMEOUT seconds have passed.
C3_TurnEndsWithinLLMTimeout ==
    (variant = "manager" /\ state.awaited # "none")
        => state.elapsed <= GEMINI_TIMEOUT

SafeReplyKinds ==
    {"safe_reply_132", "safe_reply_112", "fallback_response", "error_response_1566_112"}

LastMsg(st) == st.messages[Len(st.messages)]

\* A turn of one of the three graph classes in which an exception is raised.
TurnRaises ==
    \/ \E u \in Utterances(variant), n \in 0..AllStages : ContinueConversationFault(u, n)
    \/ \E u \in {U_EMERGENCY, U_YES} :
          /\ HybridContinueConversation(u)
          /\ RunHybridGraph(env, "greeting", AddUserTurn(state, u), 0).raised
    \/ \E u \in {U_EMERGENCY, U_YES} : BackupProcessUserInput(u, "raised")

\* C4: a turn in which an exception is raised ends with a safe reply that
\* names an emergency contact, leaves current_step as it was before the turn
\* and does not terminate the session.
C4_ExceptionKeepsStage ==
    [][TurnRaises =>
          /\ LastMsg(state').kind \in SafeReplyKinds
          /\ state'.current_step = state.current_step]_vars

FirstUtterance(st) ==
    Strip(st.messages[CHOOSE i \in UserIndexes(st.messages) :
                         \A j \in UserIndexes(st.messages) : i <= j].content)

SeededWith(st, score) ==
    /\ st.urgency_level = score
    /\ st.is_emergency = (score >= 8)

\* C5: in a session started with start_conversation and driven by
\* continue_conversation, once the first utterance has been taken,
\* urgency_level holds the score the classifier gives that utterance and
\* is_emergency tells whether that score is at least 8, for the rest of the
\* session.
C5_FirstUtteranceSeedsUrgency ==
    (variant = "turn" /\ UserIndexes(state.messages) # {})
        => SeededWith(state, _assess_urgency_smart(FirstUtterance(state)))

GuidanceKinds == {"guidance_high", "guidance_medium", "guidance_low"}

CompletionKinds == {"completion_high", "completion_medium", "completion_low"}

KindCount(st, kinds) ==
    Cardinality({i \in 1..Len(st.messages) : st.messages[i].kind \in kinds})

\* a session of StructuredVoicePhishingGraph, run turn by turn or compiled
Structured == variant \in {"turn", "graph"}

\* the step emits emergency guidance
GuidanceGiven ==
    KindCount(state', GuidanceKinds) > KindCount(state, GuidanceKinds)

\* the step emits the closing summary of a session that got no guidance
CompletedWithoutGuidance ==
    /\ KindCount(state', CompletionKinds) > KindCount(state, CompletionKinds)
    /\ KindCount(state', GuidanceKinds) = 0

\* C6: when slot-filling completes, emergency guidance is given exactly when
\* is_emergency is true and the session completes without guidance exactly
\* when it is false, in the compiled graph and in the turn-by-turn path.
C6_GuidanceIffEmergency ==
    [][Structured =>
          /\ (GuidanceGiven => state'.is_emergency)
          /\ (CompletedWithoutGuidance => ~state'.is_emergency)]_vars

\* a non-empty utterance is handled, turn by turn or by the compiled graph
TurnTaken ==
    \E u \in Utterances(variant) :
        ContinueConversation(u) \/ GraphContinueConversation(u)

\* C7: a session that has emitted emergency guidance (current_step
\* 'emergency_complete') goes on to COMPLETE: the turn handled at that stage
\* leaves current_step 'consultation_complete', in the compiled graph and
\* in the turn-by-turn path alike.
C7_GuidanceThenComplete ==
    [][(Structured /\ state.current_step = "emergency_complete" /\ TurnTaken)
          => state'.current_step = "consultation_complete"]_vars

FilledSlots(st) == {f \in SlotFields : st[f] # ABSENT}

\* the slots are answered in the order of question_flow
FilledInOrder(st) ==
    \A i \in 1..(Len(question_flow) - 1) :
        st[question_flow[i + 1].field] # ABSENT => st[question_flow[i].field] # ABSENT

SlotFilling == variant \in {"turn", "improved"}

\* C8: in a session whose slots are filled turn by turn (by _collect_info_node
\* under continue_conversation, or by the improved collection node), starting
\* from cursor 0, the slots are answered one per question in the fixed order,
\* never more of them than the cursor counts, and info_collection_complete is
\* true exactly when all 5 have been answered; the cursor then equals 5.
C8_FiveAnswersComplete ==
    SlotFilling =>
        /\ FilledInOrder(state)
        /\ Cardinality(FilledSlots(state)) <= state.current_question_index
        /\ (state.info_collection_complete <=> (FilledSlots(state) = SlotFields))
        /\ (state.info_collection_complete
               => state.current_question_index = Len(question_flow))

\* the first utterance and five answers have been given, the last one just now
C8_Witness ==
    /\ variant = "turn"
    /\ Cardinality(UserIndexes(state.messages)) = Len(question_flow) + 1
    /\ FilledSlots(state) = SlotFields
    /\ state.info_collection_complete
    /\ state.current_question_index = Len(question_flow)

SlotsOf(st) == [f \in SlotFields |-> st[f]]

UtteranceTurn == \E u \in Utterances(variant) : ContinueConversation(u)

\* C9: once current_step of a structured session is "consultation_complete",
\* a turn of continue_conversation with an utterance appends that utterance and the
\* fixed "is there anything else" reply, and leaves current_step, the slots,
\* the cursor and urgency_level as they were.
C9_CompleteIsTerminal ==
    [][(Structured /\ state.current_step = "consultation_complete" /\ UtteranceTurn)
          => /\ Len(state'.messages) = Len(state.messages) + 2
             /\ LastMsg(state') = ANYTHING_ELSE
             /\ state'.current_step = "consultation_complete"
             /\ SlotsOf(state') = SlotsOf(state)
             /\ state'.current_question_index = state.current_question_index
             /\ state'.urgency_level = state.urgency_level]_vars

\* a completed session has taken one more utterance
C9_Witness ==
    /\ variant = "turn"
    /\ state.current_step = "consultation_complete"
    /\ Len(state.messages) >= 2
    /\ LastMsg(state) = ANYTHING_ELSE
    /\ state.messages[Len(state.messages) - 1].role = "user"

BlankTurn ==
    \E u \in BlankUtterances :
        \/ ContinueConversation(u)
        \/ HybridContinueConversation(u)
        \/ \E outcome \in BackupRunOutcomes : BackupProcessUserInput(u, outcome)

\* every key of the session but the message log
OtherKeys(st) == DOMAIN st \ {"messages"}

\* C10: a turn of continue_conversation (structured or hybrid graph) or of
\* process_user_input (backup graph) whose utterance is empty or only
\* whitespace appends one "please repeat" assistant message and nothing else:
\* the stage, the cursor, the slots, the turn counter and every other key of
\* the session are as before the call, whatever the stage.
C10_BlankOnlyAsksToRepeat ==
    [][BlankTurn
          => /\ state'.messages = Append(state.messages, PLEASE_REPEAT)
             /\ OtherKeys(state') = OtherKeys(state)
             /\ \A key \in OtherKeys(state) : state'[key] = state[key]]_vars

\* a blank utterance has been answered while the slots were being collected
C10_Witness ==
    /\ variant = "turn"
    /\ state.current_step = "collecting_info"
    /\ state.current_question_index >= 2
    /\ state.conversation_turns >= 2
    /\ LastMsg(state) = PLEASE_REPEAT

HasCursor ==
    variant \in {"turn", "graph", "fault", "improved", "manager"} \cup LoopVariants

CursorOf ==
    IF variant \in {"manager"} \cup LoopVariants
    THEN state.current_langgraph_state.current_question_index
    ELSE state.current_question_index

\* C11: in every session that has a slot cursor, current_question_index is
\* between 0 and the number of slot questions before and after every step,
\* and no step decreases it.
C11_CursorBoundedMonotone ==
    [][HasCursor =>
          /\ CursorOf \in 0..Len(question_flow)
          /\ CursorOf' \in 0..Len(question_flow)
          /\ CursorOf' >= CursorOf]_vars

\* the improved node was called once more with the cursor at its upper end
C11_Witness ==
    /\ variant = "improved"
    /\ state.current_question_index = Len(question_flow)
    /\ state.reply.kind = "collection_summary"

InUrgencyRange(u) == u \in 1..10

\* every urgency_level the program holds: that of the session dictionary,
\* that of the assistant's session_state and that of the reply handed to
\* _ai_processing_node
UrgencyLevels ==
    CASE variant = "gemini" ->
             IF state.response = NoReply
             THEN {state.session_state.urgency_level}
             ELSE {state.session_state.urgency_level, state.response.urgency_level}
      [] variant \in {"manager"} \cup LoopVariants ->
             {state.current_langgraph_state.urgency_level}
      [] variant \in ServiceVariants -> {}
      [] OTHER -> {state.urgency_level}

\* C12: every urgency_level is an integer in [1,10] in every reachable state,
\* the one taken over from the reply of the LLM collaborator included.
C12_UrgencyClamped == \A u \in UrgencyLevels : InUrgencyRange(u)

IsPrefix(s, t) == Len(s) <= Len(t) /\ SubSeq(t, 1, Len(s)) = s

HasMessages ==
    variant \in {"turn", "graph", "fault", "hybrid", "backup", "manager"} \cup LoopVariants

MessagesOf(st) ==
    IF variant \in {"manager"} \cup LoopVariants
    THEN st.current_langgraph_state.messages
    ELSE st.messages

\* C13: messages is append-only and order-preserving: whatever the step (a
\* processed turn, the reply to an empty input, the quick reply after a
\* timeout, a silence follow-up), the message sequence before the step is a
\* prefix of the one after it.
C13_MessagesAppendOnly ==
    [][HasMessages => IsPrefix(MessagesOf(state), MessagesOf(state'))]_vars

\* A session of the main loop whose log holds, after the greeting, a
\* silence follow-up and the quick reply of a turn that timed out.
C13_Witness ==
    /\ variant = "loop"
    /\ \E i, j \in 1..Len(state.current_langgraph_state.messages) :
          /\ state.current_langgraph_state.messages[i].kind \in
                 {"follow_up_high", "follow_up_medium", "follow_up_low"}
          /\ state.current_langgraph_state.messages[j].kind \in
                 {"timeout_emergency", "timeout_general"}

TurnCounted == variant \in {"turn", "hybrid"}

NonBlankTurn ==
    \E u \in {U_EMERGENCY, U_SEVEN, U_YES, U_TIME} :
        ContinueConversation(u) \/ HybridContinueConversation(u)

\* C14: in a session of the structured graph or of the hybrid graph,
\* conversation_turns is one more after a turn of continue_conversation with
\* a non-empty utterance and is unchanged by every other step.
C14_TurnCounterCountsUtterances ==
    [][TurnCounted
          => state'.conversation_turns =
                 state.conversation_turns + (IF NonBlankTurn THEN 1 ELSE 0)]_vars

\* C15: a slot only moves forward.  A slot that holds a value keeps that
\* value, so a confirmed slot is never unconfirmed again; a slot of the
\* improved collection node that gets its value gets the value held for
\* confirmation, or the value of an answer taken at once, or "needs
\* checking" when its retries are exhausted.
C15_SlotsMoveForward ==
    [][SlotFilling =>
          \A f \in SlotFields :
              /\ state[f] # ABSENT => state'[f] = state[f]
              /\ (variant = "improved" /\ state[f] = ABSENT /\ state'[f] # ABSENT)
                    => \/ /\ state.confirmation_pending[f]
                          /\ state'[f] = state.temp[f]
                          /\ state'[f] # NEEDS_CHECK
                       \/ /\ ~state.confirmation_pending[f]
                          /\ state'[f] # NEEDS_CHECK
                       \/ /\ ~state.confirmation_pending[f]
                          /\ state'[f] = NEEDS_CHECK
                          /\ state.retry_count[f] = MAX_RETRIES]_vars

\* a slot was confirmed from the value held for it, another one was given up
\* as "needs checking", and the session went on
C15_Witness ==
    /\ variant = "improved"
    /\ state.loss_amount # ABSENT
    /\ state.loss_amount = state.temp.loss_amount
    /\ \E f \in SlotFields : state[f] = NEEDS_CHECK
    /\ state.info_collection_complete

\* C16: for every slot of a session of the improved collection node, the
\* retry message has been given at most MAX_RETRIES times, whatever mix of
\* unusable answers and rejected confirmations the user gave.
C16_RepromptsBounded ==
    variant = "improved" => \A f \in SlotFields : state.reprompts[f] <= MAX_RETRIES

QueuedSeqs(m) == {m.stt_queue[i].seq : i \in 1..Len(m.stt_queue)}

\* C17: under every interleaving of the transcript callback on the STT
\* thread and the main loop, stt_queue never holds more than
\* STT_QUEUE_MAXSIZE transcripts; a final transcript that finds the queue
\* full goes on to discard one, the one it discards is the oldest one
\* queued, and the transcript itself is then put at the tail of the queue,
\* never lost.
C17_QueueBoundedDropOldest ==
    [][(variant \in LoopVariants) =>
          /\ Len(state.stt_queue) <= STT_QUEUE_MAXSIZE
          /\ Len(state'.stt_queue) <= STT_QUEUE_MAXSIZE
          /\ ((\E text \in {U_EMERGENCY, U_YES} : STTFinal(text))
                 /\ Len(state.stt_queue) = STT_QUEUE_MAXSIZE)
                => state'.stt_pc = "get_nowait"
          /\ (STTGetNowait /\ state.stt_queue # <<>>)
                => /\ state'.stt_queue = Tail(state.stt_queue)
                   /\ \A seq \in QueuedSeqs(state') : seq > Head(state.stt_queue).seq
          /\ STTPutNowait
                => state'.stt_queue = Append(state.stt_queue, state.stt_text)]_vars

\* the main loop took a transcript from the full queue between the
\* callback's test of full() and its get_nowait(): the callback has
\* discarded the oldest of the remaining ones and is about to put its own
C17_Witness ==
    /\ variant = "burst"
    /\ state.stt_pc = "put_nowait"
    /\ Len(state.stt_queue) = STT_QUEUE_MAXSIZE - 2
    /\ Len(state.history.dropped) = 1
    /\ Len(state.history.started) = 1
    /\ state.history.dropped[1] > state.history.started[1]

Increasing(seqs) == \A i, j \in 1..Len(seqs) : i < j => seqs[i] < seqs[j]

\* C18: the main loop processes the transcripts one at a time and in the
\* order in which they were finalized: the transcripts whose processing has
\* started are some of the accepted ones, in increasing order of
\* finalization, and all of them but possibly the last have been finished;
\* the last one is unfinished exactly while is_processing is set.
C18_OneAtATimeInOrder ==
    (variant \in LoopVariants) =>
        /\ Increasing(state.history.started)
        /\ \A i \in 1..Len(state.history.started) :
               state.history.started[i] \in 1..state.history.accepted
        /\ Len(state.history.started) - state.history.finished \in {0, 1}
        /\ (Len(state.history.started) - state.history.finished = 1)
               <=> state.is_processing
        /\ state.is_processing <=> state.loop_pc \in {"processing", "speaking"}

\* two transcripts queued up behind each other have both been processed,
\* and the second was not the one finalized right after the first
C18_Witness ==
    /\ variant = "burst"
    /\ Len(state.history.started) = 2
    /\ state.history.finished = 2
    /\ state.history.started[2] > state.history.started[1] + 1

\* the step of the main loop that sends a silence follow-up
FollowUpEmitted ==
    /\ variant \in LoopVariants
    /\ state.loop_pc = "check"
    /\ state'.loop_pc = "follow_up"

\* C19: the main loop sends a silence follow-up only when a user utterance
\* has been received before, no turn is being processed, and no user
\* utterance has been finalized during the last SILENCE_TIMEOUT seconds.
C19_FollowUpOnlyAfterSilence ==
    [][FollowUpEmitted
          => /\ state.history.accepted > 0
             /\ ~state.is_processing
             /\ state.now - state.history.last_accepted >= SILENCE_TIMEOUT]_vars

\* C20: the main loop never sends a silence follow-up in the second in which
\* the assistant finished speaking: some time has passed since the end of
\* the last reply, however long its processing and playback took.
C20_GraceAfterReply ==
    [][FollowUpEmitted
          => \/ state.history.last_reply_end = NEVER
             \/ state.now > state.history.last_reply_end]_vars

Speaking == variant = "tts"

EndConditions(current_step, total_turns, session_age) ==
    \/ current_step = "consultation_complete"
    \/ total_turns >= MANAGER_MAX_TURNS
    \/ session_age > SESSION_TIMEOUT

\* the main loop reaches the end of an iteration
IterationEnds ==
    /\ variant \in LoopVariants
    /\ state.loop_pc \in {"check", "follow_up"}
    /\ state'.loop_pc \in {"poll", "ended"}

C23_CompleteByCeiling ==
    /\ (variant = "hybrid")
          => (state.conversation_turns >= HYBRID_COMPLETION_TURNS
                 => state.current_step = "consultation_complete")
    /\ (variant \in {"manager"} \cup LoopVariants)
          => (state.total_turns >= MANAGER_MAX_TURNS
                 => state.current_langgraph_state.current_step = "consultation_complete")
    /\ (variant = "turn")
          => (state.conversation_turns >= MANAGER_MAX_TURNS
                 => state.current_step = "consultation_complete")

\* a step of the thread that runs the transcript callback
SttThreadStep ==
    \/ \E text \in {U_EMERGENCY, U_YES} : STTFinal(text)
    \/ STTGetNowait
    \/ STTPutNowait

\* a step of the main loop: its position or its clock-free locals move
MainLoopStep ==
    \/ MainLoopTop
    \/ TurnAnswers
    \/ TurnTimesOut
    \/ TurnFails
    \/ ReplyPlayed
    \/ \E interval_passed \in BOOLEAN : MainLoopSilenceCheck(interval_passed)
    \/ FollowUpPlayed

\* C24: the session state is written by the main loop only: a step of the
\* transcript callback's thread or of the audio monitor's thread leaves
\* current_langgraph_state as it was, and every step that changes it is a
\* step of the main loop.
C24_OnlyLoopWritesSession ==
    [][(variant \in LoopVariants) =>
          /\ (SttThreadStep \/ AudioActivity)
                => state'.current_langgraph_state
                      = state.current_langgraph_state
          /\ state'.current_langgraph_state # state.current_langgraph_state
                => MainLoopStep]_vars

\* both threads have acted while a turn was being processed, and the loop
\* has changed the session since its start
C24_Witness ==
    /\ variant \in LoopVariants
    /\ state.loop_pc = "processing"
    /\ state.stt_pc = "put_nowait"
    /\ state.silence_detection.last_audio_activity = state.now
    /\ state.current_langgraph_state # start_conversation

\* a call of should_use_gemini has returned
Decisive == variant = "decision" /\ state.pc = "returned"

\* the detectors whose score is above their own threshold
Fired(scores) ==
    {k \in 1..Len(Detectors) : scores[Detectors[k]] > ThresholdOf(Detectors[k])}

\* C25: should_use_gemini escalates exactly when at least one of the five
\* scores is above its detector's own threshold; reasons has exactly one
\* entry, carrying the score, for every detector that fired and none for
\* the others (so use_gemini is true exactly when reasons is not empty);
\* and confidence is the largest of the five scores.
C25_EscalatesIffDetectorFires ==
    Decisive =>
       /\ state.decision.use_gemini <=> Fired(state.scores) # {}
       /\ state.decision.use_gemini <=> state.decision.reasons # <<>>
       /\ Len(state.decision.reasons) = Cardinality(Fired(state.scores))
       /\ \A k \in Fired(state.scores) :
             Cardinality({i \in 1..Len(state.decision.reasons) :
                            state.decision.reasons[i]
                              = [detector |-> Detectors[k],
                                 score |-> state.scores[Detectors[k]]]}) = 1
       /\ \A k \in 1..Len(Detectors) :
             state.decision.confidence >= state.scores[Detectors[k]]
       /\ \E k \in 1..Len(Detectors) :
             state.decision.confidence = state.scores[Detectors[k]]

\* a decision to escalate for which a detector with a threshold below the
\* highest one fired alone
C25_Witness ==
    /\ Decisive
    /\ state.decision.use_gemini
    /\ Cardinality(Fired(state.scores)) = 1
    /\ state.decision.confidence <= CONTEXT_THRESHOLD

\* the last assistant message ends in a question
EndsInQuestion(response) == EndsWith(Strip(response), "?")

\* C26: when the last assistant message ends in a question and the reply
\* holds none of the yes/no tokens, the context-mismatch score is above 0
\* and reasons has a context-mismatch entry.
C26_UnansweredQuestionIsMismatch ==
    (/\ Decisive
     /\ EndsInQuestion(state.last_ai_response)
     /\ ~AnyIn(answer_words, Lower(state.user_input)))
       => /\ state.scores["context_mismatch"] > 0
          /\ \E i \in 1..Len(state.decision.reasons) :
                state.decision.reasons[i].detector = "context_mismatch"

\* the last up to n user utterances of a history
LastUserUtterances(history, n) ==
    LastN(SelectSeq(history, LAMBDA msg : msg.role = "user"), n)

\* C29: the repetition score counts, among the last up to 3 user
\* utterances of the history (whatever assistant messages lie between
\* them), those sharing at least 2 tokens with the current utterance: each
\* of them contributes 0.3, up to the cap of 1.0.
C29_RepetitionWindow ==
    Decisive =>
       state.scores["repetition"]
          = Capped(RepetitionSum(state.user_input,
                                 LastUserUtterances(state.conversation_history,
                                                    REPETITION_WINDOW)))

\* _initial_assessment_node has classified the session's last user message
Classified == variant = "assess" /\ state.pc = "returned"

\* the text of the last user message as it was stored, <<>> without one
LastUserText(st) ==
    IF UserIndexes(st.messages) = {}
    THEN <<>>
    ELSE st.messages[CHOOSE i \in UserIndexes(st.messages) :
                        \A j \in UserIndexes(st.messages) : j <= i].content

\* C27: whatever the text, and whatever patterns, keywords, de-escalating
\* words, recency phrases and penalties apply to it, the urgency the
\* classifier leaves in the session is an integer in 1..10; for an empty
\* or whitespace-only text (or no utterance at all) it is the default 5.
C27_UrgencyInRange ==
    Classified =>
       /\ state.session.urgency_level \in 1..10
       /\ IsBlank(LastUserText(state.session))
             => state.session.urgency_level = 5
       /\ ~IsBlank(LastUserText(state.session))
             => state.session.urgency_level
                   = Min(Max(urgency_score(Strip(LastUserText(state.session))),
                             1), 10)

\* a text whose patterns, keywords and recency phrase add up to more than
\* 10 has been classified as 10
C27_Witness ==
    /\ Classified
    /\ urgency_score(LastUserText(state.session)) > 10
    /\ state.session.urgency_level = 10

\* the session dictionary of a structured conversation, where there is one
SessionOf(st) ==
    CASE variant \in {"turn", "graph"} -> st
      [] variant \in {"manager"} \cup LoopVariants -> st.current_langgraph_state
      [] OTHER -> create_initial_recovery_state

\* what start_conversation hands back: the stage field still "greeting"
\* (current_step has gone on to "assessment_complete" with the first-contact
\* assessment), no slot filled, the default urgency, no turn counted, the
\* greeting as the first message
FreshSession(st) ==
    /\ st.current_stage = "greeting"
    /\ \A f \in SlotFields : st[f] = ABSENT
    /\ st.urgency_level = 5
    /\ st.conversation_turns = 0
    /\ st.messages # <<>>
    /\ st.messages[1] = Msg("assistant", "greeting", <<>>)

\* the session has been created
Created(st) == st.greeting_done

YesNoValues == {YES, NO, UNCONFIRMED}

\* C30: yes/no parsing is total and idempotent: both parsers map every
\* text to one of '네', '아니요', '미확인'; parsing the same text a second
\* time gives the same value; and parsing a value they returned gives that
\* value again.
C30_YesNoTotalIdempotent ==
    (variant = "yesno") =>
       /\ state.pc # "called"
             => /\ state.first.parse_answer \in YesNoValues
                /\ state.first.extract_yes_no \in YesNoValues
       /\ state.pc = "reparsed"
             => /\ state.second = state.first
                /\ state.of_result = state.first

\* a text that holds a no word but no yes word has been parsed as '아니요',
\* and '아니요' as itself
C30_Witness ==
    /\ variant = "yesno"
    /\ state.pc = "reparsed"
    /\ state.text = <<"N", "O">>
    /\ state.first.parse_answer = NO
    /\ state.of_result.parse_answer = NO
    /\ state.of_result.extract_yes_no = NO

\* both parsers have been applied to an answer of the given type
Parsed(answer_type) ==
    variant = "parse" /\ state.pc = "returned" /\ state.answer_type = answer_type

HasDigit(t) == \E i \in 1..Len(t) : t[i] \in Digits

\* the first run of digits of a text, commas stripped
FirstDigits(t) ==
    RemoveCommas(SubSeq(t, FirstDigit(t), RunEnd(t, FirstDigit(t), NumChars)))

\* the first run of digits times the largest unit word present, as
\* '<integer>원' with thousands separators
AmountAsStated(t) ==
    FormatThousands(ToInt(FirstDigits(t)) * AmountUnit(t)) \o WON

\* C31: for a text with digits, amount parsing (the graph's parser and the
\* extractor) gives the first run of digits, commas stripped, times the
\* largest unit word present (억 10^8, 천만 10^7, 백만 10^6, 만 10^4,
\* none 1), written as '<integer>원' with thousands separators; '15억'
\* gives '1,500,000,000원' and '300만원' gives '3,000,000원'.
C31_AmountFirstDigitsTimesUnit ==
    (Parsed("amount") /\ HasDigit(state.text)) =>
       /\ state.parse_answer = AmountAsStated(state.text)
       /\ state.extracted = AmountAsStated(state.text)

\* the last non-blank character before the trailing filler is '전', the
\* text has a minute unit and none of the words of the table
FillerAfterAgo(t, base) ==
    /\ Contains(base, BUN)
    /\ base # <<>>
    /\ base[Len(base)] = "jeon"
    /\ \E filler \in {<<"xe", " ", "da">>, <<" ", "da">>, <<"xe", "da">>} :
          t = base \o filler
    /\ \A k \in 1..Len(time_mappings) : ~Contains(t, time_mappings[k][1])

\* C32: a phrase with a minute unit and '전' followed by trailing filler is
\* normalized to the phrase without the filler, by the graph's parser and
\* by the extractor: '25분 전에 다' becomes '25분 전'.
C32_TimeFillerStripped ==
    Parsed("time") =>
       \A n \in 1..Len(state.text) :
          FillerAfterAgo(state.text, SubSeq(state.text, 1, n))
             => /\ state.parse_answer = SubSeq(state.text, 1, n)
                /\ state.extracted = SubSeq(state.text, 1, n)

\* the position of the last user message, 0 without one
LastUserIndex(msgs) ==
    IF UserIndexes(msgs) = {}
    THEN 0
    ELSE CHOOSE i \in UserIndexes(msgs) : \A j \in UserIndexes(msgs) : j <= i

\* question k has been asked and no utterance has been stored since
AwaitingAnswer(st, k) ==
    \E i \in 1..Len(st.messages) :
       /\ st.messages[i].kind = "ask_" \o question_flow[k].field
       /\ i > LastUserIndex(st.messages)

\* the step stores one more utterance
UtteranceStored ==
    /\ Cardinality(UserIndexes(state'.messages))
          = Cardinality(UserIndexes(state.messages)) + 1
    /\ LastUserIndex(state'.messages) > Len(state.messages)

\* C33: under continue_conversation the first utterance of a session goes
\* into no slot; slot k (k = 1..5) is written once, with the parse of the
\* utterance that follows question k, and at that moment the slots before
\* it are filled and those after it are not: the order is victim,
\* loss_amount, time_context, account_frozen, reported_to_police.
C33_SlotFromAnswerToItsQuestion ==
    [][(variant = "turn") =>
          /\ UserIndexes(state.messages) = {} => SlotsOf(state') = SlotsOf(state)
          /\ \A k \in 1..Len(question_flow) :
                state'[question_flow[k].field] # state[question_flow[k].field]
                   => /\ state[question_flow[k].field] = ABSENT
                      /\ UtteranceStored
                      /\ AwaitingAnswer(state, k)
                      /\ state'[question_flow[k].field]
                            = _parse_answer(
                                state'.messages[LastUserIndex(state'.messages)].content,
                                question_flow[k].type)
                      /\ \A j \in 1..Len(question_flow) :
                            j # k => /\ state'[question_flow[j].field]
                                           = state[question_flow[j].field]
                                     /\ (j < k) <=> state[question_flow[j].field] # ABSENT
          /\ \A k \in 1..Len(question_flow) :
                (UtteranceStored /\ AwaitingAnswer(state, k))
                   => state'[question_flow[k].field] # ABSENT]_vars

\* all five slots are filled, and the first utterance differs from the
\* answer the time slot was read from
C33_Witness ==
    /\ variant = "turn"
    /\ FilledSlots(state) = SlotFields
    /\ state.messages[CHOOSE i \in UserIndexes(state.messages) :
                         \A j \in UserIndexes(state.messages) : i <= j].content
          = U_TIME
    /\ state.time_context = _parse_answer(U_YES, "time")
    /\ state.loss_amount = _parse_answer(U_EMERGENCY, "amount")

\* the variants that hold a slot cursor and a completion flag
CursorVariants == {"turn", "graph", "improved", "manager"} \cup LoopVariants

\* the dictionary with the cursor and the flag
CursorSession(st) ==
    IF variant \in {"manager"} \cup LoopVariants
    THEN st.current_langgraph_state
    ELSE st


\* C34: info_collection_complete is true only where the slot cursor equals
\* the number of slot questions (5), and a step never takes it from true
\* back to false.
C34_CompleteOnlyAtEndAndSticky ==
    [][(variant \in CursorVariants) =>
          /\ CursorSession(state).info_collection_complete
                => CursorSession(state).current_question_index = Len(question_flow)
          /\ CursorSession(state').info_collection_complete
                => CursorSession(state').current_question_index = Len(question_flow)
          /\ CursorSession(state).info_collection_complete
                => CursorSession(state').info_collection_complete]_vars

\* a completed session has taken one more utterance and is still complete
C34_Witness ==
    /\ variant = "turn"
    /\ state.info_collection_complete
    /\ state.current_question_index = Len(question_flow)
    /\ Cardinality(UserIndexes(state.messages)) > Len(question_flow) + 1

\* the step is a silence follow-up (_handle_silence_timeout)
FollowUpStep ==
    /\ variant \in LoopVariants
    /\ state'.history.follow_ups = state.history.follow_ups + 1

\* the step is the quick reply to a turn that timed out
\* (_handle_timeout_response)
TimeoutReplyStep ==
    /\ variant \in LoopVariants
    /\ ~state.timed_out
    /\ state'.timed_out

\* the session differs only by one assistant message at the end
OneAssistantMessageMore(old, new) ==
    /\ Len(new.messages) = Len(old.messages) + 1
    /\ new.messages[Len(new.messages)].role = "assistant"
    /\ new = [old EXCEPT !.messages = Append(@, new.messages[Len(new.messages)])]

Dequeues ==
    /\ variant \in LoopVariants
    /\ state.loop_pc = "poll"
    /\ state'.loop_pc # "poll"
    /\ state.stt_queue # <<>>

HybridStepVisits(u) ==
    IF state.messages = <<>>
    THEN HybridVisits(env, "greeting", HybridInitialState, 0)
    ELSE HybridVisits(env, "greeting", AddUserTurn(state, u), 0)

HybridStepOf(u) ==
    /\ variant = "hybrid"
    /\ IF state.messages = <<>>
       THEN state' = hybrid_start_conversation(env)
       ELSE /\ ~IsBlank(u)
            /\ state' = hybrid_continue_conversation(env, state, u)

GuidesGiven(st) ==
    Cardinality({i \in 1..Len(st.messages) : st.messages[i].kind = "emergency_guidance"})

EmergencyVisits(visits) ==
    Cardinality({i \in 1..Len(visits) : visits[i].node = "emergency_response"})

\* what follows a visit of ai_processing in a run
AfterAiProcessing(visits, i) ==
    /\ visits[i + 1].node = "completion"
          => visits[i].after.conversation_turns >= HYBRID_COMPLETION_TURNS
    /\ visits[i + 1].node \in {"completion", "emergency_response", "ai_processing"}
    /\ visits[i + 1].node = "ai_processing"
          => /\ UserIndexes(visits[i + 1].before.messages)
                   = UserIndexes(visits[i].before.messages)
             /\ _get_last_user_message(visits[i + 1].before)
                   = _get_last_user_message(visits[i].before)
    /\ visits[i + 1].node = "emergency_response"
          => /\ visits[i].after.urgency_level >= 8
             /\ ~visits[i].after.emergency_guidance_provided

\* C37: in a run of the hybrid graph ai_processing is left for completion
\* only with conversation_turns >= 15 (user_satisfied is set nowhere);
\* otherwise the run goes back into ai_processing with the same last user
\* message, no utterance being consumed, or into emergency_response; and
\* emergency_response is entered at most once in a session.
C37_HybridRouting ==
    [][\A u \in {U_EMERGENCY, U_YES} :
          HybridStepOf(u) =>
             /\ \A i \in 1..(Len(HybridStepVisits(u)) - 1) :
                   HybridStepVisits(u)[i].node = "ai_processing"
                      => AfterAiProcessing(HybridStepVisits(u), i)
             /\ GuidesGiven(state) + EmergencyVisits(HybridStepVisits(u)) <= 1
             /\ GuidesGiven(state') = GuidesGiven(state) + EmergencyVisits(HybridStepVisits(u))]_vars

\* a session that was given the emergency guide once, took a further
\* urgent utterance, and has been completed past the ceiling of 15
C37_Witness ==
    /\ variant = "hybrid"
    /\ GuidesGiven(state) = 1
    /\ state.consultation_complete
    /\ state.conversation_turns >= HYBRID_COMPLETION_TURNS
    /\ Cardinality({i \in UserIndexes(state.messages) :
                       state.messages[i].content = U_EMERGENCY}) >= 2

\* the router has been called in this step
Routed ==
    /\ variant = "route"
    /\ Len(state'.routes) = Len(state.routes) + 1

Returned(rs) == rs[Len(rs)]

Unclears(rs) == Cardinality({i \in 1..Len(rs) : rs[i] = "unclear"})

\* C38: in a session the router after the assessment answers 'unclear' at
\* most twice; once assessment_attempts has reached 3 it answers 'normal'
\* on every call, with an emergency keyword in the last user message or
\* urgency_level >= 8 as well; before that an emergency keyword or
\* urgency_level >= 8 always gives 'emergency'.
C38_AssessmentRouting ==
    [][Routed =>
          /\ Unclears(state'.routes) <= 2
          /\ state.assessment_attempts >= 3 => Returned(state'.routes) = "normal"
          /\ (/\ state.assessment_attempts < 3
              /\ \/ AnyIn(emergency_keywords, backup_get_last_user_message(state'))
                 \/ state'.urgency_level >= 8)
                => Returned(state'.routes) = "emergency"
          /\ state'.assessment_attempts = IF Len(state'.routes) < 3
                                          THEN Len(state'.routes)
                                          ELSE 3]_vars

\* two calls answered 'unclear', a third call, and then a call for a
\* message with an emergency keyword and urgency 8 answered 'normal'
C38_Witness ==
    /\ variant = "route"
    /\ Len(state.routes) = 4
    /\ state.routes[1] = "unclear"
    /\ state.routes[2] = "unclear"
    /\ state.routes[4] = "normal"
    /\ state.urgency_level >= 8
    /\ AnyIn(emergency_keywords, backup_get_last_user_message(state))

Caching == variant \in TtsVariants

\* the key of the text being spoken
SpokenKey(tts) == _make_voice_friendly(tts.text)

\* the client call comes back in this step with b'' (an exception of the
\* client), in time
ReturnsEmpty ==
    /\ Caching
    /\ state.pc = "wait_for"
    /\ state.elapsed < state.timeout
    /\ state' = _fast_tts_processing_returns(state, "empty")

\* a text whose key the cache holds is asked for in this step
CachedRequest ==
    /\ Caching
    /\ state.is_enabled
    /\ state.pc = "listening"
    /\ Len(state'.delivered) = Len(state.delivered) + 1
    /\ SpokenKey(state') \in CacheKeys(state)

\* C39: the cache of the TTS service never holds more than 10 entries; a new
\* key stored in a full cache takes the place of the earliest-inserted one;
\* a client call that fails with empty audio (unlike one that times out) is
\* stored, and a later request for the same text gets that empty audio from
\* the cache, the client not being called.
C39_CacheBoundedAndKeepsEmpty ==
    [][Caching =>
          /\ Len(state.simple_cache) <= cache_max_size
          /\ Len(state'.simple_cache) <= cache_max_size
          /\ CacheKeys(state') # CacheKeys(state)
                => /\ state.pc = "wait_for"
                   /\ SpokenKey(state) \notin CacheKeys(state)
                   /\ state'.simple_cache
                         = Append(IF Len(state.simple_cache) = cache_max_size
                                  THEN Tail(state.simple_cache)
                                  ELSE state.simple_cache,
                                  [key  |-> SpokenKey(state),
                                   data |-> state'.simple_cache[Len(state'.simple_cache)].data])
          /\ ReturnsEmpty
                => /\ SpokenKey(state) \in CacheKeys(state')
                   /\ CachedData(state', SpokenKey(state)) = "empty"
          /\ CachedRequest
                => /\ state'.simple_cache = state.simple_cache
                   /\ state'.client_calls = 0
                   /\ state'.pc # "wait_for"
                   /\ state'.delivered
                         = Append(state.delivered,
                                  CachedData(state, SpokenKey(state')))]_vars

\* the cache is full and has lost its first text; the newest text, whose
\* client call failed with empty audio, has been asked for again and was
\* answered with the empty audio of the cache
C39_Witness ==
    /\ variant = "cache"
    /\ Len(state.simple_cache) = cache_max_size
    /\ _make_voice_friendly(CacheText(1)) \notin CacheKeys(state)
    /\ state.pc = "listening"
    /\ state.client_calls = 0
    /\ state.simple_cache[cache_max_size].key = SpokenKey(state)
    /\ state.simple_cache[cache_max_size].data = "empty"
    /\ Len(state.delivered) >= 2
    /\ state.delivered[Len(state.delivered)] = "empty"
    /\ state.delivered[Len(state.delivered) - 1] = "empty"

====
